---- MODULE Spec2Model ----
(***************************************************************************)
(* Battleships zkApp (Shigoto-dev19/mina-battleships).                     *)
(*                                                                         *)
(* The on-chain contract (src/src/Battleships.ts, class Battleships), the  *)
(* provable helpers it calls (src/src/provableUtils.ts) and the off-chain  *)
(* Merkle storage its callers keep (src/src/Battleships.test.ts).          *)
(*                                                                         *)
(* Representation of o1js values:                                          *)
(*  - a Field that is only ever a small number (a coordinate, a counter,   *)
(*    a serialized target) is an integer;                                  *)
(*  - a wide Field (serialized board, serialized hit history) is the       *)
(*    sequence of its 255 bits, least significant first, so that           *)
(*    Field.fromBits / Field.toBits(n) are computed bit by bit;            *)
(*  - a Poseidon digest is the symbolic term <<"poseidon", inputs>>        *)
(*    (collision-free hash), the constant Field(0) stored in an id slot or *)
(*    a tree is <<"zero", <<0>>>>.                                         *)
(***************************************************************************)
EXTENDS Integers, Sequences, FiniteSets, TLC

(***************************************************************************)
(* Program constants                                                       *)
(***************************************************************************)
GridSize == 10

MaxHitCount == 17

TreeHeight == 8

BoardBits == 120

TargetBits == 8

HitHistoryBits == 248

\* Field.sizeInBits of the Pallas base field
FieldSizeInBits == 255

ShipLengths == <<5, 4, 3, 3, 2>>

(***************************************************************************)
(* Field.toBits / Field.fromBits                                           *)
(***************************************************************************)
Pow2(n) == 2 ^ n

\* a sequence given as a function on 1..n, as a tuple of its values
Array(f) == f \o <<>>

\* Field(n).toBits(len) for a number n < 2^len
IntToBits(n, len) == Array([i \in 1..len |-> (n \div Pow2(i - 1)) % 2])

\* Field.fromBits(bits) when the result is a small number
RECURSIVE BitsToInt(_)
BitsToInt(bits) ==
    IF bits = <<>> THEN 0
    ELSE bits[1] + 2 * BitsToInt(Tail(bits))

\* Field.fromBits(bits) as a wide Field: the bits, then zeros up to the field size
FromBits(bits) == Array([i \in 1..FieldSizeInBits |-> IF i <= Len(bits) THEN bits[i] ELSE 0])

\* faulty variant: the bits above len are dropped without a check
FitsBitsUnchecked(f, len) == TRUE

\* Field.toBits(len) throws when the value does not fit in len bits
FitsBits(f, len) == \A i \in (len + 1)..FieldSizeInBits : f[i] = 0

\* Field.toBits(len) of a wide Field that fits
ToBits(f, len) == SubSeq(f, 1, len)

\* Array.flat() of groups that all have the same size
Flatten(groups, groupSize) ==
    Array([i \in 1..(Len(groups) * groupSize) |->
        groups[((i - 1) \div groupSize) + 1][((i - 1) % groupSize) + 1]])

\* splitArrayIntoGroups(array, groupSize)
SplitArrayIntoGroups(array, groupSize) ==
    Array([g \in 1..((Len(array) + groupSize - 1) \div groupSize) |->
        SubSeq(array, (g - 1) * groupSize + 1,
               IF g * groupSize < Len(array) THEN g * groupSize ELSE Len(array))])

(***************************************************************************)
(* Poseidon, symbolically                                                  *)
(***************************************************************************)
FieldZero == <<"zero", <<0>>>>

FieldConst(v) == IF v = 0 THEN FieldZero ELSE <<"const", <<v>>>>

PoseidonHash(inputs) == <<"poseidon", inputs>>

(***************************************************************************)
(* BoardUtils                                                              *)
(***************************************************************************)
\* BoardUtils.serialize: 8 bits per coordinate, 24 per ship, 120 per board
Serialize(board) ==
    FromBits(Flatten(Array([i \in 1..Len(board) |->
        IntToBits(board[i][1], 8) \o IntToBits(board[i][2], 8) \o IntToBits(board[i][3], 8)]), 24))

\* BoardUtils.deserialize (defined when the Field fits in 120 bits)
Deserialize(serializedBoard) ==
    LET bits == ToBits(serializedBoard, BoardBits)
        groups == SplitArrayIntoGroups(bits, 8)
        serializedCoordinates == Array([i \in 1..Len(groups) |-> BitsToInt(groups[i])])
    IN  SplitArrayIntoGroups(serializedCoordinates, 3)

\* BoardUtils.hash
Hash(board) == PoseidonHash(Flatten(board, 3))

\* BoardUtils.hashSerialized
HashSerialized(serializedBoard) == Hash(Deserialize(serializedBoard))

\* faulty variant: the salt does not enter the id
GeneratePlayerIdWithoutSalt(serializedBoard, playerAddress, salt) ==
    PoseidonHash(<<HashSerialized(serializedBoard), playerAddress, 0>>)
\* BoardUtils.generatePlayerId
GeneratePlayerId(serializedBoard, playerAddress, salt) ==
    PoseidonHash(<<HashSerialized(serializedBoard), playerAddress, salt>>)

(***************************************************************************)
(* BoardCircuit                                                            *)
(***************************************************************************)
\* faulty variant: the far end of the ship is taken one cell too far
ValidateShipInRangeOffByOne(ship, shipLength, errorMessage) ==
    LET checkHorizontal == (ship[1] + shipLength < GridSize) /\ (ship[2] < GridSize)
        checkVertical   == (ship[1] < GridSize) /\ (ship[2] + shipLength < GridSize)
        isInRange == IF ship[3] = 1 THEN checkVertical ELSE checkHorizontal
    IN  IF ~(ship[3] <= 1) THEN "Coordinate z should be 1 or 0!"
        ELSE IF ~isInRange THEN errorMessage
        ELSE "ok"
\* the outcome of validateShipInRange: "ok" or the message of the failing assertion
ValidateShipInRange(ship, shipLength, errorMessage) ==
    LET checkHorizontal == (ship[1] + (shipLength - 1) < GridSize) /\ (ship[2] < GridSize)
        checkVertical   == (ship[1] < GridSize) /\ (ship[2] + (shipLength - 1) < GridSize)
        isInRange == IF ship[3] = 1 THEN checkVertical ELSE checkHorizontal
    IN  IF ~(ship[3] <= 1) THEN "Coordinate z should be 1 or 0!"
        ELSE IF ~isInRange THEN errorMessage
        ELSE "ok"

\* the cells placeShip visits for a ship, in order
ShipCells(ship, shipLength) ==
    LET increment == IF ship[3] = 1 THEN 10 ELSE 1
        location == ship[1] + ship[2] * 10
    IN  Array([i \in 1..shipLength |-> location + (i - 1) * increment])

\* placeShip: <<outcome, updated boardMap>>
PlaceShip(ship, shipLength, boardMap, errorMessage) ==
    LET cells == ShipCells(ship, shipLength)
        \* cell i collides when it is already in boardMap or among the cells pushed before it
        collisionExists(i) ==
            \/ \E k \in 1..Len(boardMap) : boardMap[k] = cells[i]
            \/ \E k \in 1..(i - 1) : cells[k] = cells[i]
    IN  IF \E i \in 1..shipLength : collisionExists(i)
        THEN <<errorMessage, boardMap>>
        ELSE <<"ok", boardMap \o cells>>

RangeErrorMessage(i) ==
    <<"Invalid Board! Ship1 is out of board range!",
      "Invalid Board! Ship2 is out of board range!",
      "Invalid Board! Ship3 is out of board range!",
      "Invalid Board! Ship4 is out of board range!",
      "Invalid Board! Ship5 is out of board range!">>[i]

CollisionErrorMessage(i) ==
    <<"Invalid Board! Collision occurred when placing Ship1!",
      "Invalid Board! Collision occurred when placing Ship2!",
      "Invalid Board! Collision occurred when placing Ship3!",
      "Invalid Board! Collision occurred when placing Ship4!",
      "Invalid Board! Collision occurred when placing Ship5!">>[i]

\* faulty variant: a ship is placed before its range is checked
RECURSIVE ValidateShipsFromPlacingFirst(_, _, _)
ValidateShipsFromPlacingFirst(ships, i, boardMap) ==
    IF i > 5 THEN "ok"
    ELSE LET p == PlaceShip(ships[i], ShipLengths[i], boardMap, CollisionErrorMessage(i))
         IN  IF p[1] # "ok" THEN p[1]
             ELSE LET r == ValidateShipInRange(ships[i], ShipLengths[i], RangeErrorMessage(i))
                  IN  IF r # "ok" THEN r
                      ELSE ValidateShipsFromPlacingFirst(ships, i + 1, p[2])
\* validateShipsLocation: the loop from ship i on, "ok" or the first failing message
RECURSIVE ValidateShipsFrom(_, _, _)
ValidateShipsFrom(ships, i, boardMap) ==
    IF i > 5 THEN "ok"
    ELSE LET r == ValidateShipInRange(ships[i], ShipLengths[i], RangeErrorMessage(i))
         IN  IF r # "ok" THEN r
             ELSE LET p == PlaceShip(ships[i], ShipLengths[i], boardMap, CollisionErrorMessage(i))
                  IN  IF p[1] # "ok" THEN p[1]
                      ELSE ValidateShipsFrom(ships, i + 1, p[2])

ValidateShipsLocation(ships) == ValidateShipsFrom(ships, 1, <<>>)

\* validateBoard: <<outcome, boardHash>>
ValidateBoard(serializedBoard) ==
    IF ~FitsBits(serializedBoard, BoardBits)
    THEN <<"Field.toBits(): value does not fit in 120 bits", FieldZero>>
    ELSE LET board == Deserialize(serializedBoard)
             r == ValidateShipsLocation(board)
         IN  IF r # "ok" THEN <<r, FieldZero>> ELSE <<"ok", Hash(board)>>

(***************************************************************************)
(* AttackUtils                                                             *)
(***************************************************************************)
\* faulty variant: the y coordinate is written before the x coordinate
SerializeTargetYFirst(target) ==
    BitsToInt(IntToBits(target[2], 4) \o IntToBits(target[1], 4))

\* AttackUtils.serializeTarget: 4 bits for x, 4 bits for y
SerializeTarget(target) ==
    BitsToInt(IntToBits(target[1], 4) \o IntToBits(target[2], 4))

\* AttackUtils.deserializeTarget (defined when the Field fits in 8 bits)
DeserializeTarget(serializedTarget) ==
    LET bits == IntToBits(serializedTarget, TargetBits)
    IN  <<BitsToInt(SubSeq(bits, 1, 4)), BitsToInt(SubSeq(bits, 5, 8))>>

\* Field.toBits(8) of a serialized target throws when the value is 2^8 or more
TargetFitsBits(serializedTarget) == serializedTarget < Pow2(TargetBits)

\* faulty variant: the y coordinate is not compared with the grid size
ValidateTargetChecksXOnly(serializedTarget) ==
    IF ~TargetFitsBits(serializedTarget) THEN "Field.toBits(): value does not fit in 8 bits"
    ELSE IF ~(DeserializeTarget(serializedTarget)[1] < GridSize)
    THEN "Target x coordinate is out of bound!"
    ELSE "ok"
\* AttackUtils.validateTarget: "ok" or the message of the failing assertion
ValidateTarget(serializedTarget) ==
    IF ~TargetFitsBits(serializedTarget) THEN "Field.toBits(): value does not fit in 8 bits"
    ELSE LET target == DeserializeTarget(serializedTarget)
         IN  IF ~(target[1] < GridSize) THEN "Target x coordinate is out of bound!"
             ELSE IF ~(target[2] < GridSize) THEN "Target y coordinate is out of bound!"
             ELSE "ok"

\* faulty variant: the counter of player 2 is written first
SerializeHitCountHistorySwapped(hitHistory) ==
    FromBits(IntToBits(hitHistory[2], 5) \o IntToBits(hitHistory[1], 5))
\* AttackUtils.serializeHitCountHistory: 5 bits per counter
SerializeHitCountHistory(hitHistory) ==
    FromBits(IntToBits(hitHistory[1], 5) \o IntToBits(hitHistory[2], 5))

\* AttackUtils.serializeHitTargetHistory: 7 bits per entry, 17 entries per player
SerializeHitTargetHistory(hitTargetHistory) ==
    LET player1HitTargetBits ==
            Flatten(Array([i \in 1..Len(hitTargetHistory[1]) |->
                              IntToBits(hitTargetHistory[1][i], 7)]), 7)
        player2HitTargetBits ==
            Flatten(Array([i \in 1..Len(hitTargetHistory[2]) |->
                              IntToBits(hitTargetHistory[2][i], 7)]), 7)
    IN  FromBits(player1HitTargetBits \o player2HitTargetBits)

\* AttackUtils.deserializeHitTargetHistory: 119 bits into 17 entries
DeserializeHitTargetHistory(hitTargetHistory) ==
    LET hitTargetsBits == SplitArrayIntoGroups(ToBits(hitTargetHistory, 119), 7)
    IN  Array([i \in 1..Len(hitTargetsBits) |-> BitsToInt(hitTargetsBits[i])])

\* faulty variant: rows of nine cells, so (9,0) and (0,1) share an encoding
EncodeHitTargetRowsOfNine(hitTarget) == hitTarget[1] + hitTarget[2] * 9 + 1

\* faulty variant: the encoding is not shifted by one, so (0,0) encodes to 0
EncodeHitTargetWithoutOffset(hitTarget) == hitTarget[1] + hitTarget[2] * 10
\* AttackUtils.encodeHitTarget
EncodeHitTarget(hitTarget) == hitTarget[1] + hitTarget[2] * 10 + 1

\* faulty variant: a missed target is logged too
UpdateHitTargetHistoryLogsMisses(target, isHit, playerHitTargets, index) ==
    Array([i \in 1..Len(playerHitTargets) |->
        IF i = index + 1 THEN EncodeHitTarget(target) ELSE playerHitTargets[i]])
\* AttackUtils.updateHitTargetHistory: entry number index (from 0) becomes the
\* encoded target on a hit and 0 on a miss
UpdateHitTargetHistory(target, isHit, playerHitTargets, index) ==
    LET encodedHitTarget == IF isHit THEN EncodeHitTarget(target) ELSE 0
    IN  Array([i \in 1..Len(playerHitTargets) |->
            IF i = index + 1 THEN encodedHitTarget ELSE playerHitTargets[i]])

\* AttackUtils.serializeHitHistory: 10 bits of counters, 238 bits of hit targets
SerializeHitHistory(serializedHitCountHistory, serializeHitTargetHistory) ==
    FromBits(ToBits(serializedHitCountHistory, 10) \o ToBits(serializeHitTargetHistory, 238))

\* AttackUtils.deserializeHitHistory, the hit counters: <<count1, count2>>
DeserializeHitCounts(hitHistory) ==
    LET bits == ToBits(hitHistory, HitHistoryBits)
        player1HitCount == BitsToInt(SubSeq(bits, 1, 5))
        player2HitCount == BitsToInt(SubSeq(bits, 6, 10))
    IN  <<player1HitCount, player2HitCount>>

\* AttackUtils.deserializeHitHistory, the hit targets: <<targets1, targets2>>
DeserializeHitTargets(hitHistory) ==
    LET bits == ToBits(hitHistory, HitHistoryBits)
        serializedPlayer1HitTargetHistory == FromBits(SubSeq(bits, 11, 129))
        serializedPlayer2HitTargetHistory == FromBits(SubSeq(bits, 130, 248))
    IN  <<DeserializeHitTargetHistory(serializedPlayer1HitTargetHistory),
          DeserializeHitTargetHistory(serializedPlayer2HitTargetHistory)>>

\* AttackUtils.deserializeHitHistory: <<<<count1, count2>>, <<targets1, targets2>>>>
DeserializeHitHistory(hitHistory) ==
    <<DeserializeHitCounts(hitHistory), DeserializeHitTargets(hitHistory)>>

\* faulty variant: the history is scanned for the 8-bit serialized target
ValidateHitTargetUniquenessBySerializedTarget(target, hitTargetHistory) ==
    \E i \in 1..Len(hitTargetHistory) : hitTargetHistory[i] = SerializeTarget(target)
\* AttackUtils.validateHitTargetUniqueness: TRUE when the target is already in the history
ValidateHitTargetUniqueness(target, hitTargetHistory) ==
    LET serializedTarget == EncodeHitTarget(target)
    IN  \E i \in 1..Len(hitTargetHistory) : hitTargetHistory[i] = serializedTarget


(***************************************************************************)
(* AttackCircuit                                                           *)
(***************************************************************************)
\* faulty variant: the scan starts one cell after the ship's origin
ScanShipSkipsOrigin(target, ship, shipLength) ==
    LET hitHorizontalShip ==
            /\ \E i \in 1..(shipLength - 1) : ship[1] + i = target[1]
            /\ ship[2] = target[2]
        hitVerticalShip ==
            /\ ship[1] = target[1]
            /\ \E i \in 1..(shipLength - 1) : ship[2] + i = target[2]
    IN  IF ship[3] = 1 THEN hitVerticalShip ELSE hitHorizontalShip
\* AttackCircuit.scanShip
ScanShip(target, ship, shipLength) ==
    LET hitHorizontalShip ==
            /\ \E i \in 0..(shipLength - 1) : ship[1] + i = target[1]
            /\ ship[2] = target[2]
        hitVerticalShip ==
            /\ ship[1] = target[1]
            /\ \E i \in 0..(shipLength - 1) : ship[2] + i = target[2]
    IN  IF ship[3] = 1 THEN hitVerticalShip ELSE hitHorizontalShip

\* the range assertions of AttackCircuit.attack on the shot
AttackShotCheck(shot) ==
    IF ~(shot[1] < GridSize) THEN "Target x coordinate is out of bound!"
    ELSE IF ~(shot[2] < GridSize) THEN "Target y coordinate is out of bound!"
    ELSE "ok"

\* faulty variant: the fifth ship is not scanned
AttackCircuitAttackFirstFourShips(ships, shot) ==
    \E i \in 1..4 : ScanShip(shot, ships[i], ShipLengths[i])

\* AttackCircuit.attack: hit when some ship is hit
AttackCircuitAttack(ships, shot) ==
    \E i \in 1..5 : ScanShip(shot, ships[i], ShipLengths[i])

\* Bool.toField
ToField(b) == IF b THEN 1 ELSE 0

(***************************************************************************)
(* MerkleTree(8) and MerkleWitness(8) of o1js: a tree of height 8 has 7    *)
(* levels of hashing above its leaves; the root of an all-zero subtree of  *)
(* level k is the symbolic constant <<"zero", <<k>>>>.                     *)
(***************************************************************************)
\* MerkleTree.zeroes[level]
Zeroes(level) == <<"zero", <<level>>>>

\* Poseidon.hash([left, right]) of two tree nodes
HashNodes(left, right) ==
    IF left[1] = "zero" /\ left = right
    THEN Zeroes(left[2][1] + 1)
    ELSE PoseidonHash(<<left, right>>)

\* the root of the empty tree, the constant the contract starts from
EMPTY_TREE8_ROOT == Zeroes(TreeHeight - 1)

\* An off-chain tree is the sequence of its first leaves (leaf i is leaves[i+1]),
\* every leaf after them is Field(0).
LeafOf(leaves, index) == IF index < Len(leaves) THEN leaves[index + 1] ELSE 0

\* MerkleTree.setLeaf
SetLeaf(leaves, index, value) ==
    Array([i \in 1..(IF index + 1 > Len(leaves) THEN index + 1 ELSE Len(leaves)) |->
        IF i = index + 1 THEN value ELSE LeafOf(leaves, i - 1)])

\* MerkleTree.getNode(level, index)
RECURSIVE GetNode(_, _, _)
GetNode(leaves, level, index) ==
    IF index * Pow2(level) >= Len(leaves) THEN Zeroes(level)
    ELSE IF level = 0 THEN FieldConst(leaves[index + 1])
    ELSE HashNodes(GetNode(leaves, level - 1, 2 * index),
                   GetNode(leaves, level - 1, 2 * index + 1))

\* MerkleTree.getRoot
GetRoot(leaves) == GetNode(leaves, TreeHeight - 1, 0)

\* MerkleTree.getWitness(index): one {isLeft, sibling} per level below the root
GetWitness(leaves, index) ==
    Array([i \in 1..(TreeHeight - 1) |->
        LET idx == index \div Pow2(i - 1)
            isLeft == idx % 2 = 0
        IN  [isLeft |-> isLeft,
             sibling |-> GetNode(leaves, i - 1, IF isLeft THEN idx + 1 ELSE idx - 1)]])

\* MerkleWitness.calculateRoot(leaf)
RECURSIVE CalculateRootFrom(_, _, _)
CalculateRootFrom(witness, i, hash) ==
    IF i > Len(witness) THEN hash
    ELSE CalculateRootFrom(witness, i + 1,
            IF witness[i].isLeft THEN HashNodes(hash, witness[i].sibling)
            ELSE HashNodes(witness[i].sibling, hash))

\* faulty variant: the root is computed for the empty leaf whatever the value
CalculateRootOfEmptyLeaf(witness, leaf) == CalculateRootFrom(witness, 1, FieldConst(0))
CalculateRoot(witness, leaf) == CalculateRootFrom(witness, 1, FieldConst(leaf))

\* MerkleWitness.calculateIndex
RECURSIVE CalculateIndexFrom(_, _)
CalculateIndexFrom(witness, i) ==
    IF i > Len(witness) THEN 0
    ELSE (IF witness[i].isLeft THEN 0 ELSE Pow2(i - 1)) + CalculateIndexFrom(witness, i + 1)

CalculateIndex(witness) == CalculateIndexFrom(witness, 1)

(***************************************************************************)
(* Bounds of the model and the inputs the callers draw from                *)
(***************************************************************************)
\* accepted firstTurn/attack calls explored in one game
MaxTurns == 4

\* UInt8: the turn counter overflows above this value
UInt8Max == 255

\* the boards of the test-suite: two registered players, an intruder, three illegal boards
BoardOf(name) ==
    CASE name = "hostBoard"     -> << <<0,0,0>>, <<0,1,0>>, <<0,2,0>>, <<0,3,0>>, <<0,4,0>> >>
      [] name = "joinerBoard"   -> << <<9,0,1>>, <<9,5,1>>, <<6,9,0>>, <<6,8,0>>, <<7,7,0>> >>
      [] name = "intruderBoard" -> << <<3,2,0>>, <<8,4,1>>, <<7,0,0>>, <<0,9,0>>, <<8,8,0>> >>
      [] name = "hostBoardTwin" -> << <<0,0,0>>, <<0,1,0>>, <<0,2,0>>, <<0,4,0>>, <<0,3,0>> >>
      [] name = "invalidRange"  -> << <<9,0,1>>, <<9,5,1>>, <<6,9,0>>, <<6,8,0>>, <<10,7,0>> >>
      [] name = "invalidZ"      -> << <<9,0,2>>, <<9,5,1>>, <<6,9,0>>, <<6,8,0>>, <<7,7,0>> >>
      [] name = "collision"     -> << <<0,0,0>>, <<0,0,1>>, <<0,2,0>>, <<0,3,0>>, <<0,4,0>> >>

InvalidBoards == {"invalidRange", "invalidZ", "collision"}

\* the boards of the two players as Fields of more than 120 bits
WideBoards == {"hostBoardWide", "joinerBoardWide"}

\* a serialized board with the bit above its 120 bits set: the Field plus 2^120
Widen(serializedBoard) ==
    Array([i \in 1..FieldSizeInBits |-> IF i = BoardBits + 1 THEN 1 ELSE serializedBoard[i]])

\* the Field a caller passes as its serialized board
SerializedBoardOf(name) ==
    CASE name = "hostBoardWide"   -> Widen(Serialize(BoardOf("hostBoard")))
      [] name = "joinerBoardWide" -> Widen(Serialize(BoardOf("joinerBoard")))
      [] OTHER                    -> Serialize(BoardOf(name))

\* a caller: address, board and salt
Players == { <<"host", "hostBoard", 1>>, <<"joiner", "joinerBoard", 2>> }

Profiles == Players \cup { <<"intruder", "intruderBoard", 1>> }

\* the profiles and their one-fault variants: wrong board, wrong salt, wrong address, illegal board
Credentials ==
    Profiles \cup
    { <<"host", "intruderBoard", 1>>, <<"host", "hostBoard", 2>>, <<"intruder", "joinerBoard", 2>>,
      <<"joiner", "invalidZ", 2>>, <<"host", "invalidRange", 1>>, <<"intruder", "collision", 1>> }

\* serialized targets: (0,0) on a host ship only, (6,8) on a joiner ship only,
\* (12,5) and (4,13) outside the grid
Targets == { SerializeTarget(<<0, 0>>), SerializeTarget(<<6, 8>>),
             SerializeTarget(<<12, 5>>), SerializeTarget(<<4, 13>>) }

\* how the caller obtained a witness from the off-chain tree
WitnessKinds == {"sync", "falseIndex", "staleIndex", "compromised"}

(***************************************************************************)
(* State: the eight on-chain slots, the off-chain trees of the accepted    *)
(* transcript, the credentials the two players registered with, and the    *)
(* last call with its outcome                                              *)
(***************************************************************************)
VARIABLES player1Id, player2Id, turns, target, targetRoot, hitResult, hitRoot,
          serializedHitHistory, provedState, targetTree, hitTree, hostCred, joinerCred, last,
          clients, twin

slots == <<player1Id, player2Id, turns, target, targetRoot, hitResult, hitRoot,
           serializedHitHistory>>

vars == <<player1Id, player2Id, turns, target, targetRoot, hitResult, hitRoot,
          serializedHitHistory, provedState, targetTree, hitTree, hostCred, joinerCred, last,
          clients, twin>>

\* the on-chain state as one value
Chain ==
    [player1Id |-> player1Id, player2Id |-> player2Id, turns |-> turns, target |-> target,
     targetRoot |-> targetRoot, hitResult |-> hitResult, hitRoot |-> hitRoot,
     serializedHitHistory |-> serializedHitHistory]

\* the witness a caller builds: from the tree in sync at the expected index, at the
\* next index, at the previous index, or from a tree with a tampered later leaf
WitnessOf(kind, leaves, index) ==
    CASE kind = "sync"        -> GetWitness(leaves, index)
      [] kind = "falseIndex"  -> GetWitness(leaves, index + 1)
      [] kind = "staleIndex"  -> GetWitness(leaves, IF index > 0 THEN index - 1 ELSE index + 2)
      [] kind = "compromised" -> GetWitness(SetLeaf(leaves, index + 3, 1), index)

TargetWitness(kind) == WitnessOf(kind, targetTree, turns)

HitWitness(kind) == WitnessOf(kind, hitTree, IF turns > 0 THEN turns - 1 ELSE 0)

\* nobody registered yet
NoCred == <<"", "", 0>>

\* the two clients after BattleShipsClient.initialize: each holds its own pair of
\* empty off-chain trees
NewClients ==
    [c \in {"host", "joiner"} |-> [targetTree |-> <<>>, hitTree |-> <<>>]]

\* the record of a pair of games played one after the other on fresh deployments:
\* the game being played, the calls of the first game with the slots each one left,
\* and the number of them the second game has repeated
NoTwin == [run |-> 1, steps |-> <<>>, at |-> 0]

\* initGame
Init ==
    /\ player1Id = FieldZero
    /\ player2Id = FieldZero
    /\ turns = 0
    /\ target = 0
    /\ targetRoot = EMPTY_TREE8_ROOT
    /\ hitResult = FALSE
    /\ hitRoot = EMPTY_TREE8_ROOT
    /\ serializedHitHistory = FromBits(<<>>)
    /\ provedState = TRUE
    /\ clients = NewClients
    /\ twin = NoTwin
    /\ targetTree = <<>>
    /\ hitTree = <<>>
    /\ hostCred = NoCred
    /\ joinerCred = NoCred
    /\ last = [method |-> "initGame", sender |-> "", board |-> "", salt |-> 0,
               target |-> 0, targetWitness |-> "", hitWitness |-> "", outcome |-> "ok"]

\* faulty variant: the writes made before a failing assertion reach the chain
TransactionKeepsWrites(outcome, writes) == writes
\* A method whose assertion fails throws: no transaction is sent and none of the
\* writes made before the failing assertion reaches the chain.
Transaction(outcome, writes) == IF outcome = "ok" THEN writes ELSE Chain

Commit(w) ==
    /\ player1Id' = w.player1Id
    /\ player2Id' = w.player2Id
    /\ turns' = w.turns
    /\ target' = w.target
    /\ targetRoot' = w.targetRoot
    /\ hitResult' = w.hitResult
    /\ hitRoot' = w.hitRoot
    /\ serializedHitHistory' = w.serializedHitHistory

\* the record of a call: its method and outcome, and the inputs of an accepted call
Call(method, cred, serializedTarget, tw, hw, outcome) ==
    IF outcome = "ok"
    THEN [method |-> method, sender |-> cred[1], board |-> cred[2], salt |-> cred[3],
          target |-> serializedTarget, targetWitness |-> tw, hitWitness |-> hw,
          outcome |-> outcome]
    ELSE [method |-> method, sender |-> "", board |-> "", salt |-> 0,
          target |-> 0, targetWitness |-> "", hitWitness |-> "", outcome |-> outcome]

\* the id a method derives for its caller: the methods take the caller's salt as
\* an argument next to the board and hash it with the board hash and the sender's
\* address (the callers in the client and the tests pass it)
SenderId(serializedBoard, sender, salt) == GeneratePlayerId(serializedBoard, sender, salt)

\* faulty variant: the sum is the first operand
UInt8AddDropsOperand(x, y) == x
\* UInt8.add
UInt8Add(x, y) == x + y

\* faulty variant: the index of a witness is not compared
IndexCheckSkipped(witnessIndex, expectedIndex) == TRUE
\* witnessIndex.assertEquals(expectedIndex): the witness is a path to the expected leaf
IndexCheck(witnessIndex, expectedIndex) == witnessIndex = expectedIndex

\* faulty variant: the root computed from a witness is not compared
RootCheckSkipped(storedRoot, currentRoot) == TRUE
\* storedRoot.assertEquals(currentRoot): the witness on an empty leaf gives the stored root
RootCheck(storedRoot, currentRoot) == storedRoot = currentRoot

(***************************************************************************)
(* hostGame                                                                *)
(***************************************************************************)
\* faulty variant: the board is validated before the host slot is checked
HostGameOutcomeValidatesFirst(serializedBoard1) ==
    IF ValidateBoard(serializedBoard1)[1] # "ok" THEN ValidateBoard(serializedBoard1)[1]
    ELSE IF player1Id # FieldZero THEN "This game has already a host!"
    ELSE "ok"
HostGameOutcome(serializedBoard1) ==
    IF player1Id # FieldZero THEN "This game has already a host!"
    ELSE ValidateBoard(serializedBoard1)[1]

HostGameWrites(sender, serializedBoard1, salt) ==
    [Chain EXCEPT !.player1Id = SenderId(serializedBoard1, sender, salt)]

HostGame(cred) ==
    LET serializedBoard1 == SerializedBoardOf(cred[2])
        outcome == HostGameOutcome(serializedBoard1)
    IN  /\ Commit(Transaction(outcome, HostGameWrites(cred[1], serializedBoard1, cred[3])))
        /\ last' = Call("hostGame", cred, 0, "", "", outcome)
        /\ hostCred' = IF outcome = "ok" THEN cred ELSE hostCred
        /\ UNCHANGED <<clients, twin, provedState, targetTree, hitTree, joinerCred>>

(***************************************************************************)
(* joinGame                                                                *)
(***************************************************************************)
\* faulty variant: the host slot is checked in place of the joiner slot
JoinGameOutcomeChecksHost(serializedBoard2) ==
    IF player1Id # FieldZero THEN "This game is already full!"
    ELSE ValidateBoard(serializedBoard2)[1]
JoinGameOutcome(serializedBoard2) ==
    IF player2Id # FieldZero THEN "This game is already full!"
    ELSE ValidateBoard(serializedBoard2)[1]

JoinGameWrites(sender, serializedBoard2, salt) ==
    [Chain EXCEPT !.player2Id = SenderId(serializedBoard2, sender, salt)]

JoinGame(cred) ==
    LET serializedBoard2 == SerializedBoardOf(cred[2])
        outcome == JoinGameOutcome(serializedBoard2)
    IN  /\ Commit(Transaction(outcome, JoinGameWrites(cred[1], serializedBoard2, cred[3])))
        /\ last' = Call("joinGame", cred, 0, "", "", outcome)
        /\ joinerCred' = IF outcome = "ok" THEN cred ELSE joinerCred
        /\ UNCHANGED <<clients, twin, provedState, targetTree, hitTree, hostCred>>

(***************************************************************************)
(* firstTurn                                                               *)
(***************************************************************************)
\* faulty variant: the turn counter is not checked
FirstTurnCheckSkipped(turnCount) == "ok"
\* the opening shot is played at turn 0 only
FirstTurnCheck(turnCount) ==
    IF turnCount # 0 THEN "Opening attack can only be played at the beginning of the game!"
    ELSE "ok"

FirstTurnOutcome(sender, serializedTarget, serializedBoard, salt, targetWitness) ==
    IF FirstTurnCheck(turns) # "ok" THEN FirstTurnCheck(turns)
    ELSE IF ~FitsBits(serializedBoard, BoardBits)
         THEN "Field.toBits(): value does not fit in 120 bits"
    ELSE IF SenderId(serializedBoard, sender, salt) # player1Id
         THEN "Only the host is allowed to play the opening shot!"
    ELSE IF ValidateTarget(serializedTarget) # "ok" THEN ValidateTarget(serializedTarget)
    ELSE IF ~IndexCheck(CalculateIndex(targetWitness), turns)
         THEN "Target storage index is not compliant with turn counter!"
    ELSE IF ~RootCheck(targetRoot, CalculateRoot(targetWitness, 0))
         THEN "Off-chain target merkle tree is out of sync!"
    ELSE IF UInt8Add(turns, 1) > UInt8Max THEN "UInt8.add: overflow"
    ELSE "ok"

\* the slots firstTurn has set when it stops with the given outcome: the target is
\* stored before the witness is checked, the root and the counter after
FirstTurnWrites(outcome, serializedTarget, targetWitness) ==
    IF outcome = "ok"
    THEN [Chain EXCEPT !.target = serializedTarget,
                       !.targetRoot = CalculateRoot(targetWitness, serializedTarget),
                       !.turns = UInt8Add(turns, 1)]
    ELSE IF outcome \in {"Target storage index is not compliant with turn counter!",
                         "Off-chain target merkle tree is out of sync!"}
    THEN [Chain EXCEPT !.target = serializedTarget]
    ELSE IF outcome = "UInt8.add: overflow"
    THEN [Chain EXCEPT !.target = serializedTarget,
                       !.targetRoot = CalculateRoot(targetWitness, serializedTarget)]
    ELSE Chain

FirstTurn(cred, serializedTarget, tw) ==
    LET serializedBoard == SerializedBoardOf(cred[2])
        targetWitness == TargetWitness(tw)
        outcome == FirstTurnOutcome(cred[1], serializedTarget, serializedBoard, cred[3], targetWitness)
    IN  /\ Commit(Transaction(outcome, FirstTurnWrites(outcome, serializedTarget, targetWitness)))
        /\ last' = Call("firstTurn", cred, serializedTarget, tw, "", outcome)
        \* the caller stores an accepted target in the off-chain tree
        /\ targetTree' = IF outcome = "ok" THEN SetLeaf(targetTree, turns, serializedTarget)
                         ELSE targetTree
        /\ UNCHANGED <<clients, twin, provedState, hitTree, hostCred, joinerCred>>

(***************************************************************************)
(* attack                                                                  *)
(***************************************************************************)
\* faulty variant: assertGreaterThanOrEqual in place of assertGreaterThan
AttackTurnCheckAllowsZero(turnCount) ==
    IF ~(turnCount >= 0) THEN "Please wait for the host to play the opening shot first!"
    ELSE "ok"
\* attack waits for the opening shot
AttackTurnCheck(turnCount) ==
    IF ~(turnCount > 0) THEN "Please wait for the host to play the opening shot first!"
    ELSE "ok"

\* faulty variant: the parity of the turn counter is ignored
CurrentPlayerIdAlwaysHost(turnCount, id1, id2) == id1
\* the player whose turn it is: player 1 at even turns, player 2 at odd turns
CurrentPlayerId(turnCount, id1, id2) == IF turnCount % 2 = 0 THEN id1 ELSE id2

\* faulty variant: only the counter of player 2 is compared
IsOverChecksOneCounter(player1HitCount, player2HitCount) == player2HitCount = MaxHitCount
\* there is a winner
IsOver(player1HitCount, player2HitCount) ==
    player2HitCount = MaxHitCount \/ player1HitCount = MaxHitCount

\* faulty variant: the branches are swapped, the reporter's own counter grows
UpdatedHitCountHistoryOfCaller(turnCount, player1HitCount, player2HitCount, hit) ==
    IF turnCount % 2 = 0
    THEN SerializeHitCountHistory(<<player1HitCount + hit, player2HitCount>>)
    ELSE SerializeHitCountHistory(<<player1HitCount, player2HitCount + hit>>)
\* the hit counters after a report: at an even turn the host reports and the
\* counter of player 2 takes the hit, at an odd turn the counter of player 1
UpdatedHitCountHistory(turnCount, player1HitCount, player2HitCount, hit) ==
    IF turnCount % 2 = 0
    THEN SerializeHitCountHistory(<<player1HitCount, player2HitCount + hit>>)
    ELSE SerializeHitCountHistory(<<player1HitCount + hit, player2HitCount>>)

\* the values attack computes from the state and its inputs
AttackValues(serializedTarget, serializedBoard, hitWitness) ==
    LET history == DeserializeHitHistory(serializedHitHistory)
        player1HitCount == history[1][1]
        player2HitCount == history[1][2]
        player1HitTargets == history[2][1]
        player2HitTargets == history[2][2]
        deserializedBoard == Deserialize(serializedBoard)
        adversaryTarget == DeserializeTarget(target)
        adversaryHitResult == AttackCircuitAttack(deserializedBoard, adversaryTarget)
        hit == ToField(adversaryHitResult)
        updatedSerializedHitCountHistory ==
            UpdatedHitCountHistory(turns, player1HitCount, player2HitCount, hit)
        playerTarget == DeserializeTarget(serializedTarget)
        isNullifiedCheck ==
            IF turns % 2 = 0
            THEN ValidateHitTargetUniqueness(playerTarget, player1HitTargets)
            ELSE ValidateHitTargetUniqueness(playerTarget, player2HitTargets)
        updatedSerializedHitTargetHistory ==
            IF turns % 2 = 0
            THEN SerializeHitTargetHistory(<<player1HitTargets,
                    UpdateHitTargetHistory(adversaryTarget, adversaryHitResult,
                                           player2HitTargets, player2HitCount)>>)
            ELSE SerializeHitTargetHistory(<<
                    UpdateHitTargetHistory(adversaryTarget, adversaryHitResult,
                                           player1HitTargets, player1HitCount),
                    player2HitTargets>>)
    IN  [player1HitCount |-> player1HitCount,
         player2HitCount |-> player2HitCount,
         adversaryTarget |-> adversaryTarget,
         adversaryHitResult |-> adversaryHitResult,
         updatedHitRoot |-> CalculateRoot(hitWitness, hit),
         isNullifiedCheck |-> isNullifiedCheck,
         updatedSerializedHitHistory
             |-> SerializeHitHistory(updatedSerializedHitCountHistory,
                                     updatedSerializedHitTargetHistory)]

AttackOutcome(sender, serializedTarget, serializedBoard, salt, targetWitness, hitWitness) ==
    LET currentPlayerId == CurrentPlayerId(turns, player1Id, player2Id)
        counts == DeserializeHitCounts(serializedHitHistory)
        targetWitnessIndex == CalculateIndex(targetWitness)
    IN  IF AttackTurnCheck(turns) # "ok" THEN AttackTurnCheck(turns)
        ELSE IF IsOver(counts[1], counts[2]) THEN "Game is already over!"
        ELSE IF ~FitsBits(serializedBoard, BoardBits)
             THEN "Field.toBits(): value does not fit in 120 bits"
        ELSE IF SenderId(serializedBoard, sender, salt) # currentPlayerId
             THEN "You are not allowed to attack! Please wait for your adversary to take action!"
        ELSE IF ~IndexCheck(targetWitnessIndex, turns)
             THEN "Target storage index is not compliant with turn counter!"
        ELSE IF ~IndexCheck(CalculateIndex(hitWitness), targetWitnessIndex - 1)
             THEN "Hit storage index is not in sync with the target Merkle Tree"
        ELSE IF ~RootCheck(targetRoot, CalculateRoot(targetWitness, 0))
             THEN "Off-chain target merkle tree is out of sync!"
        ELSE IF ~RootCheck(hitRoot, CalculateRoot(hitWitness, 0))
             THEN "Off-chain hit merkle tree is out of sync!"
        ELSE IF AttackShotCheck(DeserializeTarget(target)) # "ok"
             THEN AttackShotCheck(DeserializeTarget(target))
        ELSE IF ~TargetFitsBits(serializedTarget)
             THEN "Field.toBits(): value does not fit in 8 bits"
        ELSE IF AttackValues(serializedTarget, serializedBoard, hitWitness).isNullifiedCheck
             THEN "Please select a unique target!"
        ELSE IF ValidateTarget(serializedTarget) # "ok" THEN ValidateTarget(serializedTarget)
        ELSE IF UInt8Add(turns, 1) > UInt8Max THEN "UInt8.add: overflow"
        ELSE "ok"

\* the slots attack has set when it stops with the given outcome: the hit result and
\* the hit root are stored before the new target is checked for uniqueness, the hit
\* history before its range is checked, the target root before the counter is incremented
AttackWrites(outcome, serializedTarget, serializedBoard, targetWitness, hitWitness) ==
    LET v == AttackValues(serializedTarget, serializedBoard, hitWitness)
        reported == [Chain EXCEPT !.hitResult = v.adversaryHitResult,
                                  !.hitRoot = v.updatedHitRoot]
        counted == [reported EXCEPT !.serializedHitHistory = v.updatedSerializedHitHistory]
        fired == [counted EXCEPT !.target = serializedTarget,
                                 !.targetRoot = CalculateRoot(targetWitness, serializedTarget)]
    IN  IF outcome = "ok" THEN [fired EXCEPT !.turns = UInt8Add(turns, 1)]
        ELSE IF outcome = "UInt8.add: overflow" THEN fired
        ELSE IF outcome \in {"Target x coordinate is out of bound!",
                             "Target y coordinate is out of bound!"}
                /\ AttackShotCheck(DeserializeTarget(target)) = "ok"
             THEN counted
        ELSE IF outcome \in {"Please select a unique target!",
                             "Field.toBits(): value does not fit in 8 bits"}
             THEN reported
        ELSE Chain

Attack(cred, serializedTarget, tw, hw) ==
    LET serializedBoard == SerializedBoardOf(cred[2])
        targetWitness == TargetWitness(tw)
        hitWitness == HitWitness(hw)
        outcome == AttackOutcome(cred[1], serializedTarget, serializedBoard, cred[3],
                                 targetWitness, hitWitness)
        w == Transaction(outcome,
                AttackWrites(outcome, serializedTarget, serializedBoard, targetWitness, hitWitness))
    IN  /\ Commit(w)
        /\ last' = Call("attack", cred, serializedTarget, tw, hw, outcome)
        \* the caller stores an accepted target and the reported hit in the off-chain trees
        /\ targetTree' = IF outcome = "ok" THEN SetLeaf(targetTree, turns, serializedTarget)
                         ELSE targetTree
        /\ hitTree' = IF outcome = "ok" THEN SetLeaf(hitTree, turns - 1, ToField(w.hitResult))
                      ELSE hitTree
        /\ UNCHANGED <<clients, twin, provedState, hostCred, joinerCred>>

(***************************************************************************)
(* The game: any caller may call any method with any of the inputs         *)
(***************************************************************************)
\* hostGame and joinGame: the three callers with their boards, and the illegal boards
RegistrationInputs == { c \in Credentials : c \in Profiles \/ c[2] \in InvalidBoards }

\* every caller with every target and witnesses in sync; the two players with
\* one witness at fault, or both
WitnessFaults ==
    { w \in WitnessKinds \X WitnessKinds : w[1] = "sync" \/ w[2] = "sync" \/ w[1] = w[2] }

AttackInputs ==
    { c \in Credentials \X Targets \X WitnessKinds \X WitnessKinds :
        \/ c[1] \in Profiles /\ c[3] = "sync" /\ c[4] = "sync"
        \/ c[2] = SerializeTarget(<<6, 8>>) /\ c[3] = "sync" /\ c[4] = "sync"
        \/ /\ c[1] \in Players
           /\ c[2] = SerializeTarget(<<6, 8>>)
           /\ <<c[3], c[4]>> \in WitnessFaults }

FirstTurnInputs ==
    { c \in Credentials \X Targets \X WitnessKinds :
        \/ c[1] \in Profiles /\ c[3] = "sync"
        \/ c[2] = SerializeTarget(<<6, 8>>) /\ c[3] = "sync"
        \/ c[1] \in Players /\ c[2] = SerializeTarget(<<6, 8>>) }

Next ==
    \/ \E cred \in RegistrationInputs : HostGame(cred)
    \/ \E cred \in RegistrationInputs : JoinGame(cred)
    \/ \E c \in FirstTurnInputs : turns < MaxTurns /\ FirstTurn(c[1], c[2], c[3])
    \/ \E c \in AttackInputs : turns < MaxTurns /\ Attack(c[1], c[2], c[3], c[4])

Spec == Init /\ [][Next]_vars

(***************************************************************************)
(* A whole game: the two players register, the host opens, and the player  *)
(* on turn fires at the next cell of the adversary's fleet, again at its   *)
(* first cell, or, in the first turns, at open water                       *)
(***************************************************************************)
\* accepted firstTurn/attack calls explored in a whole game
EndgameTurns == 36

\* the turns in which a player may fire at open water
MissTurns == 3

\* the cells a fleet covers, ship after ship
FleetCells(name) ==
    LET ships == BoardOf(name)
        locations == ShipCells(ships[1], ShipLengths[1]) \o ShipCells(ships[2], ShipLengths[2])
                     \o ShipCells(ships[3], ShipLengths[3]) \o ShipCells(ships[4], ShipLengths[4])
                     \o ShipCells(ships[5], ShipLengths[5])
    IN  Array([i \in 1..Len(locations) |-> <<locations[i] % GridSize, locations[i] \div GridSize>>])

\* a cell neither fleet covers
OpenWater == <<9, 9>>

\* the targets the player on turn chooses from
EndgameTargets ==
    LET counts == DeserializeHitCounts(serializedHitHistory)
        count == IF turns % 2 = 0 THEN counts[1] ELSE counts[2]
        cells == FleetCells(IF turns % 2 = 0 THEN "joinerBoard" ELSE "hostBoard")
        next == IF count < Len(cells) THEN count + 1 ELSE Len(cells)
    IN  { SerializeTarget(cells[next]), SerializeTarget(cells[1]) }
        \cup (IF turns < MissTurns \/ count = Len(cells)
              THEN { SerializeTarget(OpenWater) } ELSE {})

\* the player on turn
EndgamePlayer == IF turns % 2 = 0 THEN <<"host", "hostBoard", 1>> ELSE <<"joiner", "joinerBoard", 2>>

NextEndgame ==
    \/ turns = 0 /\ HostGame(<<"host", "hostBoard", 1>>)
    \/ turns = 0 /\ JoinGame(<<"joiner", "joinerBoard", 2>>)
    \/ \E t \in EndgameTargets : turns = 0 /\ FirstTurn(EndgamePlayer, t, "sync")
    \/ \E t \in EndgameTargets : turns < EndgameTurns /\ Attack(EndgamePlayer, t, "sync", "sync")

SpecEndgame == Init /\ [][NextEndgame]_vars

(***************************************************************************)
(* The outcome a call would have in the current state                      *)
(***************************************************************************)
HostGameCallOutcome(cred) == HostGameOutcome(Serialize(BoardOf(cred[2])))

JoinGameCallOutcome(cred) == JoinGameOutcome(Serialize(BoardOf(cred[2])))

FirstTurnCallOutcome(c) ==
    FirstTurnOutcome(c[1][1], c[2], Serialize(BoardOf(c[1][2])), c[1][3], TargetWitness(c[3]))

AttackCallOutcome(c) ==
    AttackOutcome(c[1][1], c[2], Serialize(BoardOf(c[1][2])), c[1][3],
                  TargetWitness(c[3]), HitWitness(c[4]))

(***************************************************************************)
(* Properties                                                              *)
(***************************************************************************)

\* C1: the turn counter grows by exactly 1 in every accepted firstTurn and every
\* accepted attack, and no other call (accepted hostGame or joinGame, or any
\* rejected call) changes it.
TurnCounterCountsAcceptedShots ==
    [][ IF last'.outcome = "ok" /\ last'.method \in {"firstTurn", "attack"}
        THEN turns' = turns + 1
        ELSE turns' = turns ]_vars

\* an attack has been accepted after the opening shot and another attack
TurnCounterCountsAcceptedShotsWitness ==
    last.method = "attack" /\ last.outcome = "ok" /\ turns = 3

RootsCommitToTranscript ==
    /\ Len(targetTree) = turns
    /\ Len(hitTree) = (IF turns = 0 THEN 0 ELSE turns - 1)
    /\ targetRoot = GetRoot(targetTree)
    /\ hitRoot = GetRoot(hitTree)
    /\ turns > 0 => target = targetTree[turns]
    /\ turns > 1 => ToField(hitResult) = hitTree[turns - 1]

\* three shots are stored, and a hit and a miss have been reported
RootsCommitToTranscriptWitness ==
    /\ turns = 3
    /\ \E i \in 1..Len(hitTree) : hitTree[i] = 1
    /\ \E i \in 1..Len(hitTree) : hitTree[i] = 0
    /\ \E i \in 1..Len(targetTree) : targetTree[i] # 0

\* C4: neither hit counter exceeds 17, and once either of them is 17 every
\* attack is rejected with 'Game is already over!'.
GameStopsAtSeventeenHits ==
    LET counts == DeserializeHitCounts(serializedHitHistory)
    IN  /\ counts[1] <= 17
        /\ counts[2] <= 17
        /\ (counts[1] = 17 \/ counts[2] = 17) =>
               \A c \in AttackInputs : AttackCallOutcome(c) = "Game is already over!"

\* a player has sunk the whole fleet and a further attack has been rejected
GameStopsAtSeventeenHitsWitness ==
    /\ 17 \in { DeserializeHitCounts(serializedHitHistory)[1],
                DeserializeHitCounts(serializedHitHistory)[2] }
    /\ last.method = "attack" /\ last.outcome = "Game is already over!"

\* C5: once a shot of a player has been reported as a hit, every attack that
\* chooses the same target on that player's turn is rejected (with 'Please select
\* a unique target!' when nothing else is at fault); on the opponent's turn the
\* same target is rejected for that reason only if the opponent hit it before.
HitTargetNullifiedForItsPlayer ==
    \A i \in 1..Len(hitTree) : hitTree[i] = 1 =>
        \A c \in AttackInputs : c[2] = targetTree[i] =>
            IF turns % 2 = (i - 1) % 2
            THEN /\ AttackCallOutcome(c) # "ok"
                 /\ (/\ c[1] = (IF turns % 2 = 0 THEN hostCred ELSE joinerCred)
                     /\ c[3] = "sync" /\ c[4] = "sync")
                    => AttackCallOutcome(c) = "Please select a unique target!"
            ELSE AttackCallOutcome(c) = "Please select a unique target!" =>
                     \E j \in 1..Len(hitTree) :
                         hitTree[j] = 1 /\ targetTree[j] = c[2] /\ (j - 1) % 2 = turns % 2

\* the host's shot at (6,8) has been reported as a hit and the host's second shot
\* at (6,8) has been rejected
HitTargetNullifiedForItsPlayerWitness ==
    /\ Len(hitTree) >= 1 /\ hitTree[1] = 1 /\ targetTree[1] = SerializeTarget(<<6, 8>>)
    /\ last.method = "attack" /\ last.outcome = "Please select a unique target!"

\* C6: a rejected call leaves the eight slots as they were, also when the failing
\* check comes after a write in the method body; and after a call rejected for
\* its board, its target or its witnesses, the call with corrected inputs is accepted.
RejectedCallChangesNothing ==
    /\ [][ last'.outcome # "ok" => slots' = slots ]_vars
    /\ [](/\ (last.method = "hostGame"
                /\ last.outcome \notin {"ok", "This game has already a host!"})
              => \E cred \in RegistrationInputs : HostGameCallOutcome(cred) = "ok"
          /\ (last.method = "joinGame"
                /\ last.outcome \notin {"ok", "This game is already full!"})
              => \E cred \in RegistrationInputs : JoinGameCallOutcome(cred) = "ok"
          /\ (last.method = "firstTurn"
                /\ last.outcome \in {"Target x coordinate is out of bound!",
                                     "Target y coordinate is out of bound!",
                                     "Target storage index is not compliant with turn counter!",
                                     "Off-chain target merkle tree is out of sync!"})
              => \E c \in FirstTurnInputs : FirstTurnCallOutcome(c) = "ok"
          /\ (last.method = "attack"
                /\ last.outcome \in {"Target x coordinate is out of bound!",
                                     "Target y coordinate is out of bound!",
                                     "Please select a unique target!",
                                     "Target storage index is not compliant with turn counter!",
                                     "Hit storage index is not in sync with the target Merkle Tree",
                                     "Off-chain target merkle tree is out of sync!",
                                     "Off-chain hit merkle tree is out of sync!"})
              => \E c \in AttackInputs : AttackCallOutcome(c) = "ok")

\* firstTurn has stored the target and then failed on the witness: the target slot
\* still holds its initial value
RejectedCallChangesNothingWitness ==
    /\ last.method = "firstTurn"
    /\ last.outcome = "Off-chain target merkle tree is out of sync!"
    /\ target = 0 /\ turns = 0

\* C7: once a host is registered, every hostGame call is rejected with the
\* message that the game has a host already, whether its board is legal or not,
\* and the host id stays as it is.
SecondHostRejected ==
    /\ [](player1Id # FieldZero =>
            \A cred \in Credentials :
                HostGameCallOutcome(cred) = "This game has already a host!")
    /\ [][ player1Id # FieldZero => player1Id' = player1Id /\ hostCred' = hostCred ]_vars

\* a second hostGame has been rejected
SecondHostRejectedWitness ==
    /\ player1Id # FieldZero
    /\ last.method = "hostGame" /\ last.outcome = "This game has already a host!"

\* C8: joinGame is accepted only when player2Id is 0 and the board is legal (ships
\* horizontal or vertical, inside the grid, on disjoint cells); once it has been
\* accepted every joinGame call is rejected with 'This game is already full!' and
\* player2Id stays as it is.
JoinOnlyOnce ==
    /\ [][ last'.method = "joinGame" /\ last'.outcome = "ok" =>
            LET ships == BoardOf(last'.board)
                cells(i) == { <<ships[i][1] + (IF ships[i][3] = 0 THEN k ELSE 0),
                                ships[i][2] + (IF ships[i][3] = 1 THEN k ELSE 0)>> :
                              k \in 0..(ShipLengths[i] - 1) }
            IN  /\ player2Id = FieldZero
                /\ \A i \in 1..5 : ships[i][3] \in {0, 1}
                /\ \A i \in 1..5 : cells(i) \subseteq (0..9) \X (0..9)
                /\ \A i, j \in 1..5 : i # j => cells(i) \cap cells(j) = {} ]_vars
    /\ [](player2Id # FieldZero =>
            \A cred \in Credentials : JoinGameCallOutcome(cred) = "This game is already full!")
    /\ [][ player2Id # FieldZero => player2Id' = player2Id /\ joinerCred' = joinerCred ]_vars

\* a second joinGame has been rejected
JoinOnlyOnceWitness ==
    /\ player2Id # FieldZero
    /\ last.method = "joinGame" /\ last.outcome = "This game is already full!"

AttackWaitsForOpeningShot ==
    /\ [](turns = 0 =>
            \A c \in AttackInputs :
                AttackCallOutcome(c) = "Please wait for the host to play the opening shot first!")
    /\ [][ last'.method = "attack" /\ last'.outcome = "ok" => turns >= 1 ]_vars
    /\ [][ turns = 0 /\ turns' # 0 => last'.method = "firstTurn" /\ last'.outcome = "ok" ]_vars

\* both players are registered and an attack before the opening shot has been rejected
AttackWaitsForOpeningShotWitness ==
    /\ turns = 0 /\ player1Id # FieldZero /\ player2Id # FieldZero
    /\ last.method = "attack"
    /\ last.outcome = "Please wait for the host to play the opening shot first!"

\* the cells of the board a player registered with that carry a ship
RegisteredShipCells(cred) ==
    LET ships == BoardOf(cred[2])
    IN  UNION { { IF ships[i][3] = 1 THEN <<ships[i][1], ships[i][2] + k>>
                                      ELSE <<ships[i][1] + k, ships[i][2]>> :
                  k \in 0..(ShipLengths[i] - 1) } : i \in 1..5 }

\* the pending shot of the chain, as coordinates
PendingShot == <<target % 16, target \div 16>>

\* the credentials registered for the player on turn
CredOnTurn == IF turns % 2 = 0 THEN hostCred ELSE joinerCred

\* C11: an accepted attack at turn n leaves the caller's own hit counter as it
\* was and adds to the counter of the player who fired the pending shot 1 when the
\* shot is reported as a hit and 0 when it is reported as a miss: at even n only
\* the counter of player 2 can grow, at odd n only the counter of player 1. No
\* step decreases a counter.
AttackCountsTheReportedShot ==
    /\ [][ last'.method = "attack" /\ last'.outcome = "ok" =>
            LET counts == DeserializeHitCounts(serializedHitHistory)
                hit == IF PendingShot \in RegisteredShipCells(CredOnTurn) THEN 1 ELSE 0
            IN  DeserializeHitCounts(serializedHitHistory')
                    = IF turns % 2 = 0 THEN <<counts[1], counts[2] + hit>>
                                       ELSE <<counts[1] + hit, counts[2]>> ]_vars
    /\ [][ /\ DeserializeHitCounts(serializedHitHistory')[1]
                >= DeserializeHitCounts(serializedHitHistory)[1]
           /\ DeserializeHitCounts(serializedHitHistory')[2]
                >= DeserializeHitCounts(serializedHitHistory)[2] ]_vars

\* the host has reported a hit of the joiner and the joiner a hit of the host
AttackCountsTheReportedShotWitness ==
    /\ DeserializeHitCounts(serializedHitHistory) = <<1, 1>>
    /\ last.method = "attack" /\ last.outcome = "ok"

(***************************************************************************)
(* The example game: the two players of the tests register, the host       *)
(* opens, and the player on turn fires at one of the targets of the        *)
(* example, with witnesses in sync                                         *)
(***************************************************************************)
\* accepted firstTurn/attack calls explored in the example game
ExampleTurns == 4

\* the opening shot of the example, the joiner's answer, and a cell of the joiner's fleet
ExampleTargets ==
    { SerializeTarget(<<3, 4>>), SerializeTarget(<<0, 0>>), SerializeTarget(<<6, 8>>) }

NextExample ==
    \/ turns = 0 /\ HostGame(<<"host", "hostBoard", 1>>)
    \/ turns = 0 /\ JoinGame(<<"joiner", "joinerBoard", 2>>)
    \/ \E t \in ExampleTargets : turns = 0 /\ FirstTurn(EndgamePlayer, t, "sync")
    \/ \E t \in ExampleTargets : turns < ExampleTurns /\ Attack(EndgamePlayer, t, "sync", "sync")

SpecExample == Init /\ [][NextExample]_vars

\* the host has opened with (3,4) and the joiner has answered with (0,0)
ExampleOpening ==
    /\ hostCred = <<"host", "hostBoard", 1>>
    /\ joinerCred = <<"joiner", "joinerBoard", 2>>
    /\ Len(targetTree) >= 2
    /\ targetTree[1] = SerializeTarget(<<3, 4>>)
    /\ targetTree[2] = SerializeTarget(<<0, 0>>)

\* the example game as stated, with the hit counters [1,0] after the host's attack
ExampleGameCountersAsStated ==
    ExampleOpening =>
        /\ turns = 2 => /\ hitResult = FALSE
                        /\ DeserializeHitCounts(serializedHitHistory) = <<0, 0>>
        /\ turns = 3 => /\ hitResult = TRUE
                        /\ DeserializeHitCounts(serializedHitHistory) = <<1, 0>>

\* C12 (amended): in the example game (host opens with (3,4), joiner then fires
\* (0,0)) the joiner's first attack stores hitResult = false and hit counters
\* [0,0], and the host's following attack stores hitResult = true and hit counters
\* [player1, player2] = [0,1]: the hit is counted for player 2, who fired it.
ExampleGameCounters ==
    ExampleOpening =>
        /\ turns = 2 => /\ hitResult = FALSE
                        /\ DeserializeHitCounts(serializedHitHistory) = <<0, 0>>
        /\ turns = 3 => /\ hitResult = TRUE
                        /\ DeserializeHitCounts(serializedHitHistory) = <<0, 1>>

\* the host has reported the joiner's shot at (0,0)
ExampleGameCountersWitness ==
    /\ ExampleOpening
    /\ turns = 3
    /\ last.method = "attack" /\ last.outcome = "ok"

\* C13: after an accepted attack the hitResult slot and leaf n-1 of the hit tree
\* hold true exactly when the pending target lies on a cell of a ship of the board
\* the caller registered with; the caller cannot report any other result.
HitResultIsTheScanOfTheRegisteredBoard ==
    [][ last'.method = "attack" /\ last'.outcome = "ok" =>
            LET isHit == PendingShot \in RegisteredShipCells(CredOnTurn)
            IN  /\ <<last'.sender, last'.board, last'.salt>> = CredOnTurn
                /\ hitResult' = isHit
                /\ Len(hitTree') = turns
                /\ hitTree'[turns] = (IF isHit THEN 1 ELSE 0) ]_vars

\* the joiner's shot at the origin of the host's first ship has been reported as a
\* hit, after a shot that was reported as a miss
HitResultIsTheScanOfTheRegisteredBoardWitness ==
    /\ turns = 3
    /\ hitTree = <<0, 1>>
    /\ targetTree[2] = SerializeTarget(<<0, 0>>)
    /\ hitResult = TRUE
    /\ last.method = "attack" /\ last.outcome = "ok"

\* C14: firstTurn and attack are rejected unless the leaf index of the target
\* witness equals the turn counter, and attack also unless the leaf index of the
\* hit witness equals the turn counter minus 1; the player on turn who passes a
\* witness of another leaf gets the message of the index check.
WitnessIndexFollowsTurnCounter ==
    /\ \A c \in FirstTurnInputs :
          /\ FirstTurnCallOutcome(c) = "ok" => CalculateIndex(TargetWitness(c[3])) = turns
          /\ CalculateIndex(TargetWitness(c[3])) # turns => FirstTurnCallOutcome(c) # "ok"
    /\ \A c \in AttackInputs :
          /\ AttackCallOutcome(c) = "ok" =>
                /\ CalculateIndex(TargetWitness(c[3])) = turns
                /\ CalculateIndex(HitWitness(c[4])) = turns - 1
          /\ (CalculateIndex(TargetWitness(c[3])) # turns
                \/ CalculateIndex(HitWitness(c[4])) # turns - 1) => AttackCallOutcome(c) # "ok"
          /\ (turns >= 1 /\ c[1] = CredOnTurn /\ c[1] # NoCred) =>
                /\ c[3] \in {"falseIndex", "staleIndex"} =>
                      AttackCallOutcome(c)
                          = "Target storage index is not compliant with turn counter!"
                /\ (c[3] \in {"sync", "compromised"} /\ c[4] \in {"falseIndex", "staleIndex"}) =>
                      AttackCallOutcome(c)
                          = "Hit storage index is not in sync with the target Merkle Tree"

\* the player on turn has passed a hit witness of another leaf and has been rejected
WitnessIndexFollowsTurnCounterWitness ==
    /\ turns >= 2
    /\ last.method = "attack"
    /\ last.outcome = "Hit storage index is not in sync with the target Merkle Tree"

\* the witness a caller gets from a local target tree that differs from the
\* transcript in leaf j
TamperedTargetWitness(j) == GetWitness(SetLeaf(targetTree, j, 200), turns)

\* the witness a caller gets from a local hit tree that differs from the
\* transcript in leaf j
TamperedHitWitness(j) == GetWitness(SetLeaf(hitTree, j, 2), turns - 1)

\* the outcome of the call of the player on turn with the given witnesses
OutcomeOnTurn(serializedTarget, targetWitness, hitWitness) ==
    IF turns = 0
    THEN FirstTurnOutcome(hostCred[1], serializedTarget, Serialize(BoardOf(hostCred[2])),
                          hostCred[3], targetWitness)
    ELSE AttackOutcome(CredOnTurn[1], serializedTarget, Serialize(BoardOf(CredOnTurn[2])),
                       CredOnTurn[3], targetWitness, hitWitness)

Deployed ==
    /\ player1Id = FieldZero
    /\ player2Id = FieldZero
    /\ turns = 0
    /\ target = 0
    /\ targetRoot = FieldZero
    /\ hitResult = FALSE
    /\ hitRoot = FieldZero
    /\ serializedHitHistory = FromBits(<<>>)
    /\ provedState = FALSE
    /\ clients = NewClients
    /\ twin = NoTwin
    /\ targetTree = <<>>
    /\ hitTree = <<>>
    /\ hostCred = NoCred
    /\ joinerCred = NoCred
    /\ last = Call("deploy", NoCred, 0, "", "", "ok")

\* SmartContract.init(), called by initGame, requires that the state of the account
\* has not been set by a proof before
InitGameOutcome ==
    IF provedState THEN "Account_proved_state_precondition_unsatisfied" ELSE "ok"

\* faulty variant: the hit root is left at the zero of super.init()
InitGameWritesWithoutHitRoot ==
    [player1Id |-> FieldZero, player2Id |-> FieldZero, turns |-> 0, target |-> 0,
     targetRoot |-> EMPTY_TREE8_ROOT, hitResult |-> FALSE, hitRoot |-> FieldZero,
     serializedHitHistory |-> FromBits(<<>>)]

\* super.init() zeroes the eight slots, then initGame sets the ids, the counter, the
\* two roots and the hit history
InitGameWrites ==
    [player1Id |-> FieldZero, player2Id |-> FieldZero, turns |-> 0, target |-> 0,
     targetRoot |-> EMPTY_TREE8_ROOT, hitResult |-> FALSE, hitRoot |-> EMPTY_TREE8_ROOT,
     serializedHitHistory |-> FromBits(<<>>)]

InitGame ==
    LET outcome == InitGameOutcome
    IN  /\ Commit(Transaction(outcome, InitGameWrites))
        \* a proof has set all eight slots
        /\ provedState' = (provedState \/ outcome = "ok")
        /\ last' = Call("initGame", NoCred, 0, "", "", outcome)
        /\ hostCred' = IF outcome = "ok" THEN NoCred ELSE hostCred
        /\ joinerCred' = IF outcome = "ok" THEN NoCred ELSE joinerCred
        /\ UNCHANGED <<clients, twin, targetTree, hitTree>>

\* accepted firstTurn/attack calls explored from deployment
DeployTurns == 3

\* a cell of the host's fleet and a cell of the joiner's fleet
DeployTargets == { SerializeTarget(<<0, 0>>), SerializeTarget(<<6, 8>>) }

NextDeploy ==
    \/ InitGame
    \/ \E cred \in Players : HostGame(cred)
    \/ \E cred \in Players : JoinGame(cred)
    \/ \E t \in DeployTargets : turns < DeployTurns /\ FirstTurn(EndgamePlayer, t, "sync")
    \/ \E t \in DeployTargets : turns < DeployTurns /\ Attack(EndgamePlayer, t, "sync", "sync")

SpecDeploy == Deployed /\ [][NextDeploy]_vars

\* C16: once a player-id slot holds a non-zero value it never changes again,
\* under any later call of any method (initGame, hostGame, joinGame, firstTurn,
\* attack) by any caller.
PlayerIdsNeverChange ==
    [][ /\ player1Id # FieldZero => player1Id' = player1Id
        /\ player2Id # FieldZero => player2Id' = player2Id ]_vars

\* C17: joinGame is accepted only after a hostGame call has been accepted, that
\* is only when player1Id is non-zero: the accepted hostGame precedes the accepted
\* joinGame.
JoinGameOnlyWhenHosted ==
    [][ last'.method = "joinGame" /\ last'.outcome = "ok" => player1Id # FieldZero ]_vars

\* C18: firstTurn is accepted only when both player1Id and player2Id are
\* non-zero, so the accepted joinGame precedes the accepted firstTurn, and no
\* joinGame is accepted once the turn counter is above 0.
FirstTurnOnlyWhenFull ==
    /\ [][ last'.method = "firstTurn" /\ last'.outcome = "ok" =>
              player1Id # FieldZero /\ player2Id # FieldZero ]_vars
    /\ [][ last'.method = "joinGame" /\ last'.outcome = "ok" => turns = 0 ]_vars

\* the shots of the player on turn that have been reported, as indexes of the transcript
ReportedShotsOnTurn == { i \in 1..Len(hitTree) : (i - 1) % 2 = turns % 2 }

\* C19: a target that a player fired earlier and that was reported as a miss can
\* be fired again by the same player: unless the player also scored a hit on that
\* target, the attack of the player on turn that chooses it with witnesses in sync
\* is accepted, and an accepted attack adds nothing to a hit log when it reports a miss.
MissedTargetCanBeFiredAgain ==
    /\ (turns >= 1 /\ CredOnTurn # NoCred) =>
          \A i \in ReportedShotsOnTurn :
              (/\ hitTree[i] = 0
               /\ ~\E j \in ReportedShotsOnTurn : hitTree[j] = 1 /\ targetTree[j] = targetTree[i])
              => OutcomeOnTurn(targetTree[i], TargetWitness("sync"), HitWitness("sync")) = "ok"
    /\ \A p \in 1..2 : \A k \in 1..17 :
          DeserializeHitTargets(serializedHitHistory)[p][k] # 0 =>
              \E j \in 1..Len(hitTree) :
                  /\ hitTree[j] = 1
                  /\ (j - 1) % 2 = p - 1
                  /\ DeserializeHitTargets(serializedHitHistory)[p][k]
                         = (targetTree[j] % 16) + 10 * (targetTree[j] \div 16) + 1

\* the host has fired again at the target of the opening shot, reported as a miss
MissedTargetCanBeFiredAgainWitness ==
    /\ turns = 3
    /\ hitTree[1] = 0
    /\ targetTree[3] = targetTree[1]
    /\ targetTree[1] # 0
    /\ last.method = "attack" /\ last.outcome = "ok"

\* the encodings of the shots of player p that were reported as hits, in firing order
HitEncodingsOf(p) ==
    LET indexes == SelectSeq(Array([i \in 1..Len(hitTree) |-> i]),
                             LAMBDA i : (i - 1) % 2 = p - 1 /\ hitTree[i] = 1)
    IN  Array([k \in 1..Len(indexes) |->
            (targetTree[indexes[k]] % 16) + 10 * (targetTree[indexes[k]] \div 16) + 1])

\* C20: in every reachable state the 17-slot hit log of each player holds as many
\* non-zero entries as the player's hit counter says, in positions 0..counter-1,
\* followed by zeros; the non-zero entries are pairwise distinct and are the
\* encodings x+10y+1 of the player's shots reported as hits, in firing order; a
\* miss adds no entry.
HitLogListsTheHitsInOrder ==
    \A p \in 1..2 :
        LET log == DeserializeHitTargets(serializedHitHistory)[p]
            count == DeserializeHitCounts(serializedHitHistory)[p]
            hits == HitEncodingsOf(p)
        IN  /\ Len(log) = 17
            /\ count = Len(hits)
            /\ \A k \in 1..17 : log[k] = IF k <= count THEN hits[k] ELSE 0
            /\ \A k \in 1..count : log[k] # 0
            /\ \A k \in 1..count : \A l \in 1..count : log[k] = log[l] => k = l

\* both players have scored several hits after a miss of each
HitLogListsTheHitsInOrderWitness ==
    /\ DeserializeHitCounts(serializedHitHistory)[1] >= 3
    /\ DeserializeHitCounts(serializedHitHistory)[2] >= 3
    /\ \E i \in 1..Len(hitTree) : hitTree[i] = 0 /\ (i - 1) % 2 = 0
    /\ \E i \in 1..Len(hitTree) : hitTree[i] = 0 /\ (i - 1) % 2 = 1

\* C21: firstTurn and attack reject a new target whose decoded x or y is 10 or
\* more, so whenever the turn counter is 1 or more the pending target decodes to a
\* cell of the 10x10 grid and the range assertions of AttackCircuit.attack on the
\* stored shot pass.
PendingTargetOnGrid ==
    /\ \A c \in FirstTurnInputs :
          (c[2] % 16 >= 10 \/ c[2] \div 16 >= 10) => FirstTurnCallOutcome(c) # "ok"
    /\ \A c \in AttackInputs :
          (c[2] % 16 >= 10 \/ c[2] \div 16 >= 10) => AttackCallOutcome(c) # "ok"
    /\ turns >= 1 =>
          /\ PendingShot[1] \in 0..9 /\ PendingShot[2] \in 0..9
          /\ DeserializeTarget(target) = PendingShot
          /\ AttackShotCheck(DeserializeTarget(target)) = "ok"

\* the player on turn has chosen a target off the grid and has been rejected
PendingTargetOnGridWitness ==
    /\ turns >= 2
    /\ last.method = "attack"
    /\ last.outcome \in {"Target x coordinate is out of bound!",
                         "Target y coordinate is out of bound!"}

\* the outcome of an attack of the given caller at an on-grid target with witnesses in sync
AttackOutcomeOf(cred) ==
    AttackOutcome(cred[1], SerializeTarget(<<6, 8>>), Serialize(BoardOf(cred[2])), cred[3],
                  TargetWitness("sync"), HitWitness("sync"))

LoserMakesTheLastAttack ==
    /\ [][ (/\ 17 \notin { DeserializeHitCounts(serializedHitHistory)[p] : p \in 1..2 }
            /\ 17 \in { DeserializeHitCounts(serializedHitHistory')[p] : p \in 1..2 }) =>
              /\ last'.method = "attack" /\ last'.outcome = "ok"
              /\ <<last'.sender, last'.board, last'.salt>> = CredOnTurn
              /\ DeserializeHitCounts(serializedHitHistory')[IF turns % 2 = 0 THEN 2 ELSE 1] = 17
              /\ DeserializeHitCounts(serializedHitHistory')[IF turns % 2 = 0 THEN 1 ELSE 2] < 17
       ]_vars
    /\ [][ 17 \in { DeserializeHitCounts(serializedHitHistory)[p] : p \in 1..2 } =>
              /\ ~(last'.method = "attack" /\ last'.outcome = "ok")
              /\ turns' = turns ]_vars

\* the joiner has just reported the hit that sinks the last cell of the joiner's fleet
LoserMakesTheLastAttackWitness ==
    /\ DeserializeHitCounts(serializedHitHistory)[1] = 17
    /\ last.method = "attack" /\ last.outcome = "ok"
    /\ last.sender = "joiner"

(***************************************************************************)
(* The circuits and codecs on their own: the input of a call is drawn at   *)
(* the start and the call applies the function to it                       *)
(***************************************************************************)
\* coordinates of a ship tried in place of one ship of a board: the corners, the
\* cells around the last legal origin of each ship length and the first illegal ones
CoordInputs == {0, 1, 5, 6, 7, 8, 9, 10}

\* orientations tried
OrientationInputs == {0, 1, 2}

\* the board with ship number i replaced
WithShip(board, i, ship) == Array([k \in 1..Len(board) |-> IF k = i THEN ship ELSE board[k]])

\* boards: the boards of the tests, valid and invalid, with one ship replaced
BoardInputs ==
    { WithShip(BoardOf(name), i, <<x, y, z>>) :
        name \in {"hostBoard", "joinerBoard", "invalidRange", "invalidZ", "collision"},
        i \in 1..5, x \in CoordInputs, y \in CoordInputs, z \in OrientationInputs }

\* the largest coordinate of a shot tried, on the grid and off it
MaxShotCoord == 11

\* shots at and around the grid
ShotInputs == (0..MaxShotCoord) \X (0..MaxShotCoord)

\* hit counters tried
HitCountInputs == {0, 1, 9, 16, 17}

\* a 17-entry hit log holding the given entries, then zeros
HitLog(entries) == Array([k \in 1..MaxHitCount |-> IF k <= Len(entries) THEN entries[k] ELSE 0])

\* hit logs: empty, one entry, the smallest and the largest encodings, a full log
HitLogInputs ==
    { HitLog(<<>>), HitLog(<<1>>), HitLog(<<100, 1, 64>>),
      Array([k \in 1..MaxHitCount |-> 100 - k]),
      Array([k \in 1..MaxHitCount |-> k]) }

\* a call of a function with its input, before it is applied
Pending(method, input) ==
    [method |-> method, input |-> input, outcome |-> "pending", output |-> <<>>]

InitCircuits ==
    /\ player1Id = FieldZero
    /\ player2Id = FieldZero
    /\ turns = 0
    /\ target = 0
    /\ targetRoot = EMPTY_TREE8_ROOT
    /\ hitResult = FALSE
    /\ hitRoot = EMPTY_TREE8_ROOT
    /\ serializedHitHistory = FromBits(<<>>)
    /\ provedState = TRUE
    /\ clients = NewClients
    /\ twin = NoTwin
    /\ targetTree = <<>>
    /\ hitTree = <<>>
    /\ hostCred = NoCred
    /\ joinerCred = NoCred
    /\ \/ \E b \in BoardInputs : last = Pending("validateBoard", b)
       \/ \E b \in BoardInputs : last = Pending("deserialize", b)
       \/ \E name \in {"hostBoard", "joinerBoard", "intruderBoard"} : \E s \in ShotInputs :
              last = Pending("attack", <<BoardOf(name), s>>)
       \/ \E s \in ShotInputs : last = Pending("deserializeTarget", s)
       \/ \E s \in ShotInputs : last = Pending("encodeHitTarget", s)
       \/ \E c1 \in HitCountInputs : \E c2 \in HitCountInputs :
          \E l1 \in HitLogInputs : \E l2 \in HitLogInputs :
              last = Pending("deserializeHitHistory", <<<<c1, c2>>, <<l1, l2>>>>)

\* a call returns: its outcome and its result
Return(outcome, output) ==
    /\ last' = [last EXCEPT !.outcome = outcome, !.output = output]
    /\ UNCHANGED <<clients, twin, slots, provedState, targetTree, hitTree, hostCred, joinerCred>>

\* BoardCircuit.validateBoard(BoardUtils.serialize(board))
ValidateBoardCall ==
    /\ last.method = "validateBoard" /\ last.outcome = "pending"
    /\ LET r == ValidateBoard(Serialize(last.input)) IN Return(r[1], r[2])

\* BoardUtils.deserialize(BoardUtils.serialize(board))
DeserializeCall ==
    /\ last.method = "deserialize" /\ last.outcome = "pending"
    /\ Return("ok", Deserialize(Serialize(last.input)))

\* AttackCircuit.attack(ships, shot)
AttackCircuitCall ==
    /\ last.method = "attack" /\ last.outcome = "pending"
    /\ LET outcome == AttackShotCheck(last.input[2])
       IN  Return(outcome, IF outcome = "ok"
                           THEN <<AttackCircuitAttack(last.input[1], last.input[2])>>
                           ELSE <<>>)

\* AttackUtils.deserializeTarget(AttackUtils.serializeTarget(shot)); a coordinate of
\* 16 or more does not fit in the 4 bits serializeTarget asks for
DeserializeTargetCall ==
    /\ last.method = "deserializeTarget" /\ last.outcome = "pending"
    /\ IF last.input[1] < 16 /\ last.input[2] < 16
       THEN Return("ok", DeserializeTarget(SerializeTarget(last.input)))
       ELSE Return("Field.toBits(): value does not fit in 4 bits", <<>>)

\* AttackUtils.encodeHitTarget(shot)
EncodeHitTargetCall ==
    /\ last.method = "encodeHitTarget" /\ last.outcome = "pending"
    /\ Return("ok", EncodeHitTarget(last.input))

\* AttackUtils.deserializeHitHistory of the serialized counters and logs
DeserializeHitHistoryCall ==
    /\ last.method = "deserializeHitHistory" /\ last.outcome = "pending"
    /\ Return("ok", DeserializeHitHistory(
                        SerializeHitHistory(SerializeHitCountHistory(last.input[1]),
                                            SerializeHitTargetHistory(last.input[2]))))

NextCircuits ==
    \/ ValidateBoardCall
    \/ DeserializeCall
    \/ AttackCircuitCall
    \/ DeserializeTargetCall
    \/ EncodeHitTargetCall
    \/ DeserializeHitHistoryCall

SpecCircuits == InitCircuits /\ [][NextCircuits]_vars

\* the cells a ship of the given length occupies from its origin: along x when
\* horizontal (orientation 0), along y when vertical
ShipCellSet(ship, length) ==
    { IF ship[3] = 1 THEN <<ship[1], ship[2] + k>> ELSE <<ship[1] + k, ship[2]>> :
        k \in 0..(length - 1) }

\* the rules of a board: orientations 0 or 1, every cell on the grid, no cell twice
BoardIsValid(board) ==
    /\ \A i \in 1..5 :
          /\ board[i][3] \in {0, 1}
          /\ \A c \in ShipCellSet(board[i], ShipLengths[i]) : c[1] \in 0..9 /\ c[2] \in 0..9
    /\ \A i \in 1..5 : \A j \in 1..5 :
          i < j => ShipCellSet(board[i], ShipLengths[i])
                       \cap ShipCellSet(board[j], ShipLengths[j]) = {}

\* C25: validateBoard accepts an encoded board exactly when each of the five
\* ships (lengths 5,4,3,3,2) has orientation 0 or 1, all of its cells lie inside
\* the 10x10 grid and no cell is occupied by two ships; on acceptance it returns
\* the hash of the 15 decoded coordinates.
ValidateBoardAcceptsTheValidBoards ==
    (last.method = "validateBoard" /\ last.outcome # "pending") =>
        LET b == last.input
        IN  /\ (last.outcome = "ok") = BoardIsValid(b)
            /\ last.outcome = "ok" =>
                  last.output = PoseidonHash(<<b[1][1], b[1][2], b[1][3], b[2][1], b[2][2], b[2][3],
                                               b[3][1], b[3][2], b[3][3], b[4][1], b[4][2], b[4][3],
                                               b[5][1], b[5][2], b[5][3]>>)

\* a board whose first ship stands upright against the right edge has been accepted
ValidateBoardAcceptsTheValidBoardsWitness ==
    /\ last.method = "validateBoard" /\ last.outcome = "ok"
    /\ last.input[1] = <<9, 5, 1>>

\* the rule ship number i of a board violates, given the ships before it
ShipViolation(board, i) ==
    IF board[i][3] \notin {0, 1} THEN "orientation"
    ELSE IF \E c \in ShipCellSet(board[i], ShipLengths[i]) : c[1] > 9 \/ c[2] > 9 THEN "range"
    ELSE IF \E j \in 1..(i - 1) :
               ShipCellSet(board[i], ShipLengths[i]) \cap ShipCellSet(board[j], ShipLengths[j]) # {}
         THEN "collision"
    ELSE "none"

\* the lowest-index ship of an invalid board that violates a rule
FirstViolatingShip(board) ==
    CHOOSE i \in 1..5 :
        /\ ShipViolation(board, i) # "none"
        /\ \A j \in 1..(i - 1) : ShipViolation(board, j) = "none"

\* the claim as stated: every failure names the lowest-index violating ship, an
\* orientation other than 0 or 1 being a range violation of that ship
ValidationNamesTheFirstViolatingShip ==
    (last.method = "validateBoard" /\ last.outcome # "pending" /\ ~BoardIsValid(last.input)) =>
        LET i == FirstViolatingShip(last.input)
        IN  last.outcome = IF ShipViolation(last.input, i) = "collision"
                           THEN CollisionErrorMessage(i) ELSE RangeErrorMessage(i)

\* C26 (amended): when a board is invalid, validation fails at the lowest-index
\* ship that violates a rule; a range violation and a collision are reported by a
\* message that names that ship, an orientation other than 0 or 1 by the message
\* "Coordinate z should be 1 or 0!", which names no ship; for that ship an
\* orientation or range violation is reported in preference to a collision, and
\* violations of later ships are never reported before those of an earlier ship.
ValidationFailsAtTheFirstViolatingShip ==
    (last.method = "validateBoard" /\ last.outcome # "pending" /\ ~BoardIsValid(last.input)) =>
        LET i == FirstViolatingShip(last.input)
            v == ShipViolation(last.input, i)
        IN  last.outcome = CASE v = "orientation" -> "Coordinate z should be 1 or 0!"
                             [] v = "range"       -> RangeErrorMessage(i)
                             [] v = "collision"   -> CollisionErrorMessage(i)

\* the joiner's board with the fourth ship moved to (8,8): the ship leaves the grid
\* and crosses the second ship at (9,8); the call is rejected for its range
ValidationFailsAtTheFirstViolatingShipWitness ==
    /\ last.method = "validateBoard"
    /\ last.outcome = RangeErrorMessage(4)
    /\ last.input = WithShip(BoardOf("joinerBoard"), 4, <<8, 8, 0>>)
    /\ <<9, 8>> \in ShipCellSet(last.input[2], ShipLengths[2]) \cap ShipCellSet(last.input[4], ShipLengths[4])

\* the cells occupied by the five ships of a board
OccupiedCells(board) == UNION { ShipCellSet(board[i], ShipLengths[i]) : i \in 1..5 }

\* C27: for a valid board and a shot (x,y) with x and y in 0..9, AttackCircuit.attack
\* returns true if and only if (x,y) is a cell occupied by one of the five ships;
\* for a shot with x >= 10 or y >= 10 it fails and returns no result.
AttackReturnsWhetherACellIsOccupied ==
    (last.method = "attack" /\ last.outcome # "pending" /\ BoardIsValid(last.input[1])) =>
        LET board == last.input[1]
            shot  == last.input[2]
        IN  IF shot[1] \in 0..9 /\ shot[2] \in 0..9
            THEN /\ last.outcome = "ok"
                 /\ last.output = << shot \in OccupiedCells(board) >>
            ELSE /\ last.outcome # "ok"
                 /\ last.output = <<>>

\* a shot at the far end of the joiner's vertical carrier is reported as a hit
AttackReturnsWhetherACellIsOccupiedWitness ==
    /\ last.method = "attack"
    /\ last.outcome = "ok"
    /\ last.input = <<BoardOf("joinerBoard"), <<9, 4>>>>
    /\ last.output = <<TRUE>>

\* C28: encoding then decoding is the identity: deserialize(serialize(B)) = B for
\* every valid board B, deserializeTarget(serializeTarget(s)) = s for every shot s
\* in the grid, and deserializeHitHistory of the serialized hit history returns the
\* two counters (0..17) and the two 17-entry hit logs that were serialized.
DecodingInvertsEncoding ==
    /\ (last.method = "deserialize" /\ last.outcome # "pending" /\ BoardIsValid(last.input)) =>
           (last.outcome = "ok" /\ last.output = last.input)
    /\ (/\ last.method = "deserializeTarget" /\ last.outcome # "pending"
        /\ last.input[1] \in 0..9 /\ last.input[2] \in 0..9) =>
           (last.outcome = "ok" /\ last.output = last.input)
    /\ (last.method = "deserializeHitHistory" /\ last.outcome # "pending") =>
           (last.outcome = "ok" /\ last.output = last.input)

\* a hit history with different counters and different, non-empty logs came back
\* from the round trip
DecodingInvertsEncodingWitness ==
    /\ last.method = "deserializeHitHistory"
    /\ last.outcome = "ok"
    /\ last.input[1] = <<16, 17>>
    /\ last.input[2] = <<HitLog(<<100, 1, 64>>), Array([k \in 1..MaxHitCount |-> k])>>
    /\ last.output = last.input

\* the shots on the grid among the inputs of encodeHitTarget
EncodedShots == { s \in ShotInputs : s[1] \in 0..9 /\ s[2] \in 0..9 }

\* the claim as stated: the encoding of a shot on the grid lies in 1..91
HitEncodingUpTo91 ==
    (/\ last.method = "encodeHitTarget" /\ last.outcome = "ok"
     /\ last.input[1] \in 0..9 /\ last.input[2] \in 0..9) =>
        last.output \in 1..91

\* C30 (amended): for every shot (x,y) with x and y in 0..9 the hit-log encoding
\* x + 10y + 1 lies in the range 1..100, fits in 7 bits and is never the reserved
\* value 0; distinct shots get distinct encodings.
HitEncodingInRangeAndDistinct ==
    (/\ last.method = "encodeHitTarget" /\ last.outcome = "ok"
     /\ last.input[1] \in 0..9 /\ last.input[2] \in 0..9) =>
        /\ last.output \in 1..100
        /\ last.output < Pow2(7)
        /\ BitsToInt(IntToBits(last.output, 7)) = last.output
        /\ last.output # 0
        /\ \A s \in EncodedShots : s # last.input => EncodeHitTarget(s) # last.output

\* the corner (9,9) got the encoding 100
HitEncodingInRangeAndDistinctWitness ==
    /\ last.method = "encodeHitTarget"
    /\ last.outcome = "ok"
    /\ last.input = <<9, 9>>
    /\ last.output = 100

(***************************************************************************)
(* Over-wide arguments: the two players call the methods with their board  *)
(* and a target, or with Fields whose low-order bits are their board or a  *)
(* target and whose higher bits are not zero                               *)
(***************************************************************************)
WidthTurns == 2

\* a serialized target with the bit above its 8 bits set
WideTarget(serializedTarget) == serializedTarget + Pow2(TargetBits)

WidthCredentials ==
    Players \cup { <<"host", "hostBoardWide", 1>>, <<"joiner", "joinerBoardWide", 2>> }

WidthTargets ==
    LET onGrid == { SerializeTarget(<<0, 0>>), SerializeTarget(<<6, 8>>), SerializeTarget(<<3, 4>>) }
    IN  onGrid \cup { WideTarget(t) : t \in onGrid }

NextWidth ==
    \/ \E cred \in WidthCredentials : HostGame(cred)
    \/ \E cred \in WidthCredentials : JoinGame(cred)
    \/ \E cred \in WidthCredentials, t \in WidthTargets :
          turns < WidthTurns /\ FirstTurn(cred, t, "sync")
    \/ \E cred \in WidthCredentials, t \in WidthTargets :
          turns < WidthTurns /\ Attack(cred, t, "sync", "sync")

SpecWidth == Init /\ [][NextWidth]_vars

\* TRUE when a call with the caller's board and the target is made of over-wide values
OverWide(cred, serializedTarget) ==
    \/ \E i \in (BoardBits + 1)..FieldSizeInBits : SerializedBoardOf(cred[2])[i] = 1
    \/ ~(serializedTarget < Pow2(TargetBits))

\* C29: decoding never truncates: a method call whose encoded board is 2^120 or
\* more, or whose encoded shot is 2^8 or more, is rejected, and no call is accepted
\* on the basis of the low-order bits of an over-wide value: the accepted calls and
\* the stored target are made of values that fit.
OverWideArgumentsRejected ==
    /\ \A cred \in WidthCredentials :
          OverWide(cred, 0) =>
              /\ HostGameOutcome(SerializedBoardOf(cred[2])) # "ok"
              /\ JoinGameOutcome(SerializedBoardOf(cred[2])) # "ok"
    /\ \A cred \in WidthCredentials, t \in WidthTargets :
          OverWide(cred, t) =>
              /\ FirstTurnOutcome(cred[1], t, SerializedBoardOf(cred[2]), cred[3],
                                  TargetWitness("sync")) # "ok"
              /\ AttackOutcome(cred[1], t, SerializedBoardOf(cred[2]), cred[3],
                               TargetWitness("sync"), HitWitness("sync")) # "ok"
    /\ last.outcome = "ok" => (last.board \notin WideBoards /\ last.target < Pow2(TargetBits))
    /\ target < Pow2(TargetBits)

\* the player on turn has fired an over-wide target whose low-order 8 bits are a
\* target that is accepted from that player, and has been rejected for its width
OverWideArgumentsRejectedWitness ==
    /\ turns >= 1
    /\ last.method = "attack"
    /\ last.outcome = "Field.toBits(): value does not fit in 8 bits"
    /\ AttackOutcome(CredOnTurn[1], SerializeTarget(<<6, 8>>), SerializedBoardOf(CredOnTurn[2]),
                     CredOnTurn[3], TargetWitness("sync"), HitWitness("sync")) = "ok"
    /\ AttackOutcome(CredOnTurn[1], WideTarget(SerializeTarget(<<6, 8>>)),
                     SerializedBoardOf(CredOnTurn[2]), CredOnTurn[3],
                     TargetWitness("sync"), HitWitness("sync")) = last.outcome

(***************************************************************************)
(* A game played on: the two players register, the host opens and the      *)
(* player on turn keeps firing. During the first turns a player chooses    *)
(* between the next cell of the adversary's fleet and open water; later a  *)
(* player fires at the fleet while every reported shot has been a hit, and *)
(* at open water once a shot has missed. Whenever a shot can be accepted,  *)
(* one is eventually made.                                                 *)
(***************************************************************************)
BranchTurns == 2

\* MerkleTree.leafCount: the leaves of a tree of the contract's height
LeafCount == Pow2(TreeHeight - 1)

\* TRUE when every shot reported so far has been a hit
AllReportedShotsHit ==
    LET counts == DeserializeHitCounts(serializedHitHistory)
    IN  turns >= 1 /\ counts[1] + counts[2] = turns - 1

\* the targets the player on turn chooses from
PersistentTargets ==
    LET counts == DeserializeHitCounts(serializedHitHistory)
        count == IF turns % 2 = 0 THEN counts[1] ELSE counts[2]
        cells == FleetCells(IF turns % 2 = 0 THEN "joinerBoard" ELSE "hostBoard")
        next == IF count < Len(cells) THEN count + 1 ELSE Len(cells)
    IN  (IF turns < BranchTurns \/ AllReportedShotsHit
         THEN { SerializeTarget(cells[next]) } ELSE {})
        \cup (IF turns < BranchTurns \/ ~AllReportedShotsHit
              THEN { SerializeTarget(OpenWater) } ELSE {})

\* the opening shot of the host
PersistentFirstTurn == \E t \in PersistentTargets : turns = 0 /\ FirstTurn(EndgamePlayer, t, "sync")

\* an attack of the player on turn
PersistentAttack == \E t \in PersistentTargets : Attack(EndgamePlayer, t, "sync", "sync")

NextPersistent ==
    \/ turns = 0 /\ HostGame(<<"host", "hostBoard", 1>>)
    \/ turns = 0 /\ JoinGame(<<"joiner", "joinerBoard", 2>>)
    \/ PersistentFirstTurn
    \/ PersistentAttack

BothRegistered == player1Id # FieldZero /\ player2Id # FieldZero

\* a hit counter has reached 17
SomeoneWon ==
    LET counts == DeserializeHitCounts(serializedHitHistory)
    IN  counts[1] = MaxHitCount \/ counts[2] = MaxHitCount

\* TRUE when the methods accept a shot of the player on turn
ShotIsAccepted ==
    \E t \in PersistentTargets :
        IF turns = 0
        THEN FirstTurnOutcome(EndgamePlayer[1], t, SerializedBoardOf(EndgamePlayer[2]),
                              EndgamePlayer[3], TargetWitness("sync")) = "ok"
        ELSE AttackOutcome(EndgamePlayer[1], t, SerializedBoardOf(EndgamePlayer[2]),
                           EndgamePlayer[3], TargetWitness("sync"), HitWitness("sync")) = "ok"

\* when a shot of the player on turn is accepted, in terms of the slots: the
\* player is registered, nobody has won and the trees have a free leaf
ShotCanBeAccepted ==
    /\ IF turns % 2 = 0 THEN player1Id # FieldZero ELSE player2Id # FieldZero
    /\ ~SomeoneWon
    /\ turns < LeafCount

\* a shot of the player on turn that is accepted: the turn counter grows
AcceptedShot == ShotCanBeAccepted /\ turns' = turns + 1

SpecPersistent == Init /\ [][NextPersistent]_vars /\ WF_turns(AcceptedShot)

EmptyHitLog == Array([k \in 1..MaxHitCount |-> 0])

\* C31: after initGame, player1Id and player2Id are 0, the turn counter is 0,
\* targetRoot and hitRoot both equal the root of the empty tree of height 8, and the
\* serialized hit history is 0: both counters 0, both logs empty.
InitGameSetsTheLobby ==
    (last.method = "initGame" /\ last.outcome = "ok") =>
        /\ player1Id = FieldZero
        /\ player2Id = FieldZero
        /\ turns = 0
        /\ targetRoot = GetRoot(<<>>)
        /\ hitRoot = GetRoot(<<>>)
        /\ targetRoot = CalculateRoot(GetWitness(<<>>, 0), 0)
        /\ serializedHitHistory = FromBits(<<>>)
        /\ FitsBits(serializedHitHistory, 0)
        /\ DeserializeHitHistory(serializedHitHistory) = <<<<0, 0>>, <<EmptyHitLog, EmptyHitLog>>>>

\* initGame has been accepted on the deployed account, whose roots were zero
InitGameSetsTheLobbyWitness ==
    /\ last.method = "initGame"
    /\ last.outcome = "ok"
    /\ provedState
    /\ hitRoot = EMPTY_TREE8_ROOT
    /\ hitRoot # FieldZero

\* TRUE of a step made by an accepted call of the method
AcceptedCall(method) == last'.method = method /\ last'.outcome = "ok"

\* C32: each method writes only its own slots: an accepted hostGame changes only
\* player1Id, an accepted joinGame only player2Id, an accepted firstTurn only the
\* pending target, targetRoot and the turn counter, and an accepted attack never
\* changes player1Id or player2Id; hitResult, hitRoot and the serialized hit history
\* change only through accepted attack calls.
MethodsWriteTheirOwnSlots ==
    [][ /\ AcceptedCall("hostGame") =>
              UNCHANGED <<player2Id, turns, target, targetRoot, hitResult, hitRoot,
                          serializedHitHistory>>
        /\ AcceptedCall("joinGame") =>
              UNCHANGED <<player1Id, turns, target, targetRoot, hitResult, hitRoot,
                          serializedHitHistory>>
        /\ AcceptedCall("firstTurn") =>
              UNCHANGED <<player1Id, player2Id, hitResult, hitRoot, serializedHitHistory>>
        /\ AcceptedCall("attack") => UNCHANGED <<player1Id, player2Id>>
        /\ (\/ hitResult' # hitResult
            \/ hitRoot' # hitRoot
            \/ serializedHitHistory' # serializedHitHistory) => AcceptedCall("attack") ]_vars

\* an accepted attack has reported a hit: hitResult, hitRoot and the hit history
\* differ from their initial values while both ids are in place
MethodsWriteTheirOwnSlotsWitness ==
    /\ last.method = "attack"
    /\ last.outcome = "ok"
    /\ hitResult
    /\ hitRoot # EMPTY_TREE8_ROOT
    /\ serializedHitHistory # FromBits(<<>>)
    /\ player1Id # FieldZero
    /\ player2Id # FieldZero

\* C33: in no reachable state are both hit counters equal to 17: a game has at
\* most one winner (and no counter goes beyond 17).
AtMostOneWinner ==
    LET counts == DeserializeHitCounts(serializedHitHistory)
    IN  /\ ~(counts[1] = MaxHitCount /\ counts[2] = MaxHitCount)
        /\ counts[1] <= MaxHitCount
        /\ counts[2] <= MaxHitCount

\* the host has won with 17 hits, the joiner has 16 and the joiner's pending shot
\* is on the host's fleet; the host's attack, which would report it, is rejected
AtMostOneWinnerWitness ==
    /\ DeserializeHitCounts(serializedHitHistory) = <<MaxHitCount, MaxHitCount - 1>>
    /\ AttackCircuitAttack(BoardOf("hostBoard"), PendingShot)
    /\ turns % 2 = 0
    /\ last.method = "attack"
    /\ last.outcome = "Game is already over!"

GridCells == (0..(GridSize - 1)) \X (0..(GridSize - 1))

\* the hit log of the player on turn
HitLogOnTurn == DeserializeHitTargets(serializedHitHistory)[IF turns % 2 = 0 THEN 1 ELSE 2]

\* the player on turn has an attack that is accepted: own board and salt, witnesses
\* taken from the trees of the accepted transcript, a target on the grid that is not
\* in the player's hit log
PlayerOnTurnCanAttack ==
    \E cell \in GridCells :
        /\ ~ValidateHitTargetUniqueness(cell, HitLogOnTurn)
        /\ AttackOutcome(CredOnTurn[1], SerializeTarget(cell), SerializedBoardOf(CredOnTurn[2]),
                         CredOnTurn[3], TargetWitness("sync"), HitWitness("sync")) = "ok"

\* C35: no deadlock before the end: in every reachable state where both players
\* are registered, the turn counter is between 1 and 254 and no hit counter is 17,
\* the player whose turn it is has at least one attack call that is accepted.
NoDeadlockBeforeTheEnd ==
    (BothRegistered /\ turns \in 1..(UInt8Max - 1) /\ ~SomeoneWon) => PlayerOnTurnCanAttack

(***************************************************************************)
(* A game without repeated targets: shot number k of a player is cell      *)
(* number k of the adversary's fleet or cell number k of the open water    *)
(* around it. The choice is free in the first turns; later a player fires  *)
(* at the fleet while every reported shot has been a hit, and at the water *)
(* once a shot has missed.                                                 *)
(***************************************************************************)
\* the cells of the grid, row after row
AllCells == Array([i \in 1..(GridSize * GridSize) |-> <<(i - 1) % GridSize, (i - 1) \div GridSize>>])

\* the cells no ship of the fleet covers, row after row
WaterCells(name) ==
    LET fleet == { FleetCells(name)[i] : i \in 1..Len(FleetCells(name)) }
        IsWater(cell) == cell \notin fleet
    IN  SelectSeq(AllCells, IsWater)

\* the targets the player on turn chooses from for the next shot
NoRepeatTargets ==
    LET adversary == IF turns % 2 = 0 THEN "joinerBoard" ELSE "hostBoard"
        k == turns \div 2
        onFleet == k < Len(FleetCells(adversary)) /\ (turns < BranchTurns \/ AllReportedShotsHit)
    IN  (IF onFleet THEN { SerializeTarget(FleetCells(adversary)[k + 1]) } ELSE {})
        \cup (IF ~onFleet \/ turns < BranchTurns
              THEN { SerializeTarget(WaterCells(adversary)[k + 1]) } ELSE {})

NoRepeatFirstTurn == \E t \in NoRepeatTargets : turns = 0 /\ FirstTurn(EndgamePlayer, t, "sync")

NoRepeatAttack == \E t \in NoRepeatTargets : Attack(EndgamePlayer, t, "sync", "sync")

NextNoRepeat ==
    \/ turns = 0 /\ HostGame(<<"host", "hostBoard", 1>>)
    \/ turns = 0 /\ JoinGame(<<"joiner", "joinerBoard", 2>>)
    \/ NoRepeatFirstTurn
    \/ NoRepeatAttack

SpecNoRepeat == Init /\ [][NextNoRepeat]_vars /\ WF_turns(AcceptedShot)

\* no player has fired the same cell twice: the targets stored at the leaves of one
\* parity differ
NoCellFiredTwice ==
    \A i, j \in 1..Len(targetTree) :
        (i < j /\ i % 2 = j % 2) => targetTree[i] # targetTree[j]

\* C36: if both players are registered, the eligible player always eventually
\* makes an accepted call and no player ever fires the same cell twice, then some
\* hit counter reaches 17 after at most 200 accepted firstTurn/attack calls.
GameEndsWithinTwoHundredCalls ==
    []NoCellFiredTwice => (BothRegistered ~> (SomeoneWon /\ turns <= 2 * GridSize * GridSize))

(***************************************************************************)
(* BattleShipsClient: each player drives the contract through a client     *)
(* that keeps its own target tree and hit tree                             *)
(***************************************************************************)
\* faulty variant: the adversary's hit result is stored at the leaf of the call
\* the client is about to make
PreparedHitTreeAtOwnLeaf(c) ==
    IF turns >= 2 THEN SetLeaf(clients[c].hitTree, turns - 1, ToField(hitResult))
    ELSE clients[c].hitTree
\* playTurn before it submits: from the second turn on, the hit result the adversary
\* reported is fetched from the chain and stored at leaf index - 2
PreparedHitTree(c) ==
    IF turns >= 2 THEN SetLeaf(clients[c].hitTree, turns - 2, ToField(hitResult))
    ELSE clients[c].hitTree

\* playTurn before it submits: the adversary's target is fetched from the chain and
\* stored at leaf index - 1
PreparedTargetTree(c) == SetLeaf(clients[c].targetTree, turns - 1, target)

\* playFirstTurn: the witness is taken at the turn counter, and the stored target is
\* written to the local tree once the transaction went through
PlayFirstTurn(cred, firstTarget) ==
    LET c == cred[1]
        index == turns
        targetWitness == GetWitness(clients[c].targetTree, index)
        serializedTarget == SerializeTarget(firstTarget)
        outcome == FirstTurnOutcome(c, serializedTarget, SerializedBoardOf(cred[2]), cred[3],
                                    targetWitness)
        w == Transaction(outcome, FirstTurnWrites(outcome, serializedTarget, targetWitness))
    IN  /\ Commit(w)
        /\ last' = Call("firstTurn", cred, serializedTarget, "client", "", outcome)
        /\ clients' = IF outcome = "ok"
                      THEN [clients EXCEPT ![c].targetTree = SetLeaf(@, index, w.target)]
                      ELSE clients
        /\ targetTree' = IF outcome = "ok" THEN SetLeaf(targetTree, turns, serializedTarget)
                         ELSE targetTree
        /\ UNCHANGED <<twin, provedState, hitTree, hostCred, joinerCred>>

\* playTurn: the local trees catch up with the adversary's call, the witnesses are
\* taken at index and index - 1, and the stored target and hit result are written to
\* the local trees once the transaction went through; a transaction that throws
\* leaves the trees as they were prepared
PlayTurn(cred, shot) ==
    LET c == cred[1]
        index == turns
        preparedTargets == PreparedTargetTree(c)
        preparedHits == PreparedHitTree(c)
        targetWitness == GetWitness(preparedTargets, index)
        hitWitness == GetWitness(preparedHits, index - 1)
        serializedTarget == SerializeTarget(shot)
        serializedBoard == SerializedBoardOf(cred[2])
        outcome == AttackOutcome(c, serializedTarget, serializedBoard, cred[3],
                                 targetWitness, hitWitness)
        w == Transaction(outcome,
                AttackWrites(outcome, serializedTarget, serializedBoard, targetWitness, hitWitness))
    IN  /\ Commit(w)
        /\ last' = Call("attack", cred, serializedTarget, "client", "client", outcome)
        /\ clients' = IF outcome = "ok"
                      THEN [clients EXCEPT
                               ![c].targetTree = SetLeaf(preparedTargets, index, w.target),
                               ![c].hitTree = SetLeaf(preparedHits, index - 1, ToField(w.hitResult))]
                      ELSE [clients EXCEPT ![c].targetTree = preparedTargets,
                                           ![c].hitTree = preparedHits]
        /\ targetTree' = IF outcome = "ok" THEN SetLeaf(targetTree, turns, serializedTarget)
                         ELSE targetTree
        /\ hitTree' = IF outcome = "ok" THEN SetLeaf(hitTree, turns - 1, ToField(w.hitResult))
                      ELSE hitTree
        /\ UNCHANGED <<twin, provedState, hostCred, joinerCred>>

\* the number of turns the two clients play
ClientTurns == 6

\* the shots the client on turn chooses from: the next cell of the adversary's fleet,
\* the next cell of open water, or the first fleet cell once more
ClientShots ==
    LET adversary == IF turns % 2 = 0 THEN "joinerBoard" ELSE "hostBoard"
        k == turns \div 2
    IN  { FleetCells(adversary)[k + 1], WaterCells(adversary)[k + 1], FleetCells(adversary)[1] }

\* runGame: the host hosts, the joiner joins, the host plays the first turn, then the
\* joiner's and the host's clients play their turns in alternation
NextClients ==
    \/ turns = 0 /\ HostGame(<<"host", "hostBoard", 1>>)
    \/ turns = 0 /\ JoinGame(<<"joiner", "joinerBoard", 2>>)
    \/ \E shot \in ClientShots : turns = 0 /\ PlayFirstTurn(EndgamePlayer, shot)
    \/ \E shot \in ClientShots : turns \in 1..(ClientTurns - 1) /\ PlayTurn(EndgamePlayer, shot)

SpecClients == Init /\ [][NextClients]_vars

\* the rejections of a witness: a wrong index or a root that is not the stored one
WitnessRejections ==
    { "Target storage index is not compliant with turn counter!",
      "Hit storage index is not in sync with the target Merkle Tree",
      "Off-chain target merkle tree is out of sync!",
      "Off-chain hit merkle tree is out of sync!" }

\* the local roots of a client equal the stored roots
InSyncWithChain(targets, hits) == GetRoot(targets) = targetRoot /\ GetRoot(hits) = hitRoot

\* C37: when the clients take turns, the trees the client on turn has prepared for its
\* call have the stored roots, no witness a client submitted is rejected, and after
\* its transaction, accepted or not, a client's trees again have the stored roots
ClientTreesFollowTheChain ==
    LET onTurn == EndgamePlayer[1]
        other == IF onTurn = "host" THEN "joiner" ELSE "host"
    IN  /\ turns = 0 => InSyncWithChain(clients["host"].targetTree, clients["host"].hitTree)
        /\ turns >= 1 => InSyncWithChain(PreparedTargetTree(onTurn), PreparedHitTree(onTurn))
        /\ turns >= 1 => InSyncWithChain(clients[other].targetTree, clients[other].hitTree)
        /\ (last.method = "attack" /\ last.outcome # "ok")
              => InSyncWithChain(clients[onTurn].targetTree, clients[onTurn].hitTree)
        /\ last.outcome \notin WitnessRejections

\* both clients have stored a hit, the joiner's client has just reported another
\* one in an accepted call, and the host's client is on turn
ClientTreesFollowTheChainWitness ==
    /\ turns = 4
    /\ \E i \in 1..Len(clients["host"].hitTree) : clients["host"].hitTree[i] = 1
    /\ \E i \in 1..Len(clients["joiner"].hitTree) : clients["joiner"].hitTree[i] = 1
    /\ hitResult = TRUE
    /\ last.outcome = "ok" /\ last.method = "attack"

(***************************************************************************)
(* Two games with the same callers and the same targets, played one after  *)
(* the other on fresh deployments; the host's board differs between them   *)
(***************************************************************************)
\* the number of calls of a game
TwinSteps == 8

\* the slots other than the two ids
PublicSlots(chain) ==
    [turns |-> chain.turns, target |-> chain.target, targetRoot |-> chain.targetRoot,
     hitResult |-> chain.hitResult, hitRoot |-> chain.hitRoot,
     serializedHitHistory |-> chain.serializedHitHistory]

\* the credentials of a caller in each game: the host plays the second game with
\* another board
TwinCred(address, run) ==
    IF address = "host"
    THEN <<"host", IF run = 1 THEN "hostBoard" ELSE "hostBoardTwin", 1>>
    ELSE <<"joiner", "joinerBoard", 2>>

\* the calls the first game chooses from, in the order of runGame: the shots of the host
\* hit the joiner's fleet or miss it; the shots of the joiner hit both boards of the host
\* (on different ships), miss both, or hit one of them only
TwinCalls ==
    IF Len(twin.steps) = 0 THEN { <<"hostGame", "host", <<0, 0>>>> }
    ELSE IF Len(twin.steps) = 1 THEN { <<"joinGame", "joiner", <<0, 0>>>> }
    ELSE IF turns = 0 THEN { <<"firstTurn", "host", shot>> : shot \in { <<9, 0>>, <<5, 5>> } }
    ELSE IF turns % 2 = 0 THEN { <<"attack", "host", shot>> : shot \in { <<9, 0>>, <<5, 5>> } }
    ELSE { <<"attack", "joiner", shot>> : shot \in { <<0, 4>>, <<9, 9>>, <<2, 3>> } }

\* one call of a method by a caller whose off-chain trees are in sync
Submit(call, cred) ==
    LET method == call[1]
        serializedBoard == SerializedBoardOf(cred[2])
        serializedTarget == SerializeTarget(call[3])
        targetWitness == TargetWitness("sync")
        hitWitness == HitWitness("sync")
        Outcome ==
            CASE method = "hostGame" -> HostGameOutcome(serializedBoard)
              [] method = "joinGame" -> JoinGameOutcome(serializedBoard)
              [] method = "firstTurn" -> FirstTurnOutcome(cred[1], serializedTarget, serializedBoard,
                                                          cred[3], targetWitness)
              [] method = "attack" -> AttackOutcome(cred[1], serializedTarget, serializedBoard,
                                                    cred[3], targetWitness, hitWitness)
        Writes(outcome) ==
            CASE method = "hostGame" -> HostGameWrites(cred[1], serializedBoard, cred[3])
              [] method = "joinGame" -> JoinGameWrites(cred[1], serializedBoard, cred[3])
              [] method = "firstTurn" -> FirstTurnWrites(outcome, serializedTarget, targetWitness)
              [] method = "attack" -> AttackWrites(outcome, serializedTarget, serializedBoard,
                                                   targetWitness, hitWitness)
    IN  \E outcome \in { Outcome } :
        \E w \in { Transaction(outcome, Writes(outcome)) } :
        \E fired \in { outcome = "ok" /\ method \in {"firstTurn", "attack"} } :
            /\ Commit(w)
            /\ last' = Call(method, cred, IF fired THEN serializedTarget ELSE 0,
                            IF fired THEN "sync" ELSE "",
                            IF fired /\ method = "attack" THEN "sync" ELSE "", outcome)
            /\ hostCred' = IF outcome = "ok" /\ method = "hostGame" THEN cred ELSE hostCred
            /\ joinerCred' = IF outcome = "ok" /\ method = "joinGame" THEN cred ELSE joinerCred
            /\ targetTree' = IF fired THEN SetLeaf(targetTree, turns, serializedTarget)
                             ELSE targetTree
            /\ hitTree' = IF fired /\ method = "attack"
                          THEN SetLeaf(hitTree, turns - 1, ToField(w.hitResult))
                          ELSE hitTree
            /\ UNCHANGED <<provedState, clients>>

\* a call of the first game, recorded with its outcome and the slots it leaves
FirstGame(call) ==
    /\ twin.run = 1
    /\ Len(twin.steps) < TwinSteps
    /\ \E cred \in { TwinCred(call[2], 1) } : Submit(call, cred)
    /\ twin' = [twin EXCEPT !.steps =
                   Append(@, [call |-> call, outcome |-> last'.outcome,
                              public |-> PublicSlots([turns |-> turns', target |-> target',
                                  targetRoot |-> targetRoot', hitResult |-> hitResult',
                                  hitRoot |-> hitRoot',
                                  serializedHitHistory |-> serializedHitHistory'])])]

\* the second game starts on a fresh deployment
SecondDeployment ==
    /\ twin.run = 1
    /\ Len(twin.steps) = TwinSteps
    /\ Commit([player1Id |-> FieldZero, player2Id |-> FieldZero, turns |-> 0, target |-> 0,
               targetRoot |-> EMPTY_TREE8_ROOT, hitResult |-> FALSE,
               hitRoot |-> EMPTY_TREE8_ROOT, serializedHitHistory |-> FromBits(<<>>)])
    /\ targetTree' = <<>>
    /\ hitTree' = <<>>
    /\ hostCred' = NoCred
    /\ joinerCred' = NoCred
    /\ last' = [method |-> "initGame", sender |-> "", board |-> "", salt |-> 0,
                target |-> 0, targetWitness |-> "", hitWitness |-> "", outcome |-> "ok"]
    /\ twin' = [twin EXCEPT !.run = 2]
    /\ UNCHANGED <<provedState, clients>>

\* the second game repeats the calls of the first one, the host with its other board
SecondGame ==
    /\ twin.run = 2
    /\ twin.at < Len(twin.steps)
    /\ \E call \in { twin.steps[twin.at + 1].call } :
          \E cred \in { TwinCred(call[2], 2) } : Submit(call, cred)
    /\ twin' = [twin EXCEPT !.at = @ + 1]

NextTwin ==
    \/ \E call \in TwinCalls : FirstGame(call)
    \/ SecondDeployment
    \/ SecondGame

SpecTwin == Init /\ [][NextTwin]_vars

\* the cells a board covers
FleetCellSet(name) == { FleetCells(name)[i] : i \in 1..Len(FleetCells(name)) }

\* the two boards of the host give the same answer to every shot the joiner fired
\* among the first n calls
SameAnswers(n) ==
    \A k \in 1..n :
        LET step == twin.steps[k]
        IN  (step.outcome = "ok" /\ step.call[1] = "attack" /\ step.call[2] = "joiner")
                => ((step.call[3] \in FleetCellSet("hostBoard"))
                        <=> (step.call[3] \in FleetCellSet("hostBoardTwin")))

\* C38: when the same callers repeat the same calls against another board of the host
\* that answers every shot fired so far as the first board did, every slot other
\* than the two ids holds after each call the value it held in the first game
SlotsShowOnlyTheAnswers ==
    (twin.run = 2 /\ twin.at >= 1 /\ SameAnswers(twin.at))
        => PublicSlots(Chain) = twin.steps[twin.at].public

\* the second game is over: a shot of the joiner hit the host's fleet, on different
\* ships of the two boards, the hit was reported and counted, and the id of the host
\* is not the one of the first game
SlotsShowOnlyTheAnswersWitness ==
    /\ twin.run = 2
    /\ twin.at = TwinSteps
    /\ SameAnswers(twin.at)
    /\ turns = TwinSteps - 2
    /\ twin.steps[4].call[3] = <<0, 4>>
    /\ twin.steps[5].outcome = "ok"
    /\ hitResult = TRUE
    /\ DeserializeHitHistory(serializedHitHistory)[1][2] >= 1
    /\ player1Id # GeneratePlayerId(SerializedBoardOf("hostBoard"), "host", 1)

====
